---- MODULE Spec2Model ----
(***************************************************************************)
(* Model of the zen-beats audio engine (src/services/audioService.ts,      *)
(* class AudioService, lines 1-399).                                       *)
(*                                                                         *)
(* Time is counted in milliseconds and advances in steps of Quantum, the   *)
(* common divisor of every delay and ramp length the engine uses.  Every   *)
(* pending thing (a parameter ramp, a setTimeout, a setInterval, a         *)
(* scheduled chirp) keeps the time that is left until it is due.           *)
(* Gains are integers in units of 1/10000 (Unity = gain 1.0).              *)
(***************************************************************************)
EXTENDS Integers, Sequences, FiniteSets, TLC

VARIABLES
  ctx,            \* this.ctx !== null (init() has run)
  master,         \* automation of masterGain.gain
  bus,            \* automation of binauralGain / natureGain / noiseGain
  osc,            \* this.leftOsc / this.rightOsc (the tone pair) or NoOsc
  tones,          \* ids of the tone pairs that were started and not stopped
  natureNodes,    \* this.natureNodes: kind -> node id, 0 when absent
  nodes,          \* the nature layer objects that exist (registered or not)
  colorNoiseNode, \* this.colorNoiseNode: noise generator id, 0 when null
  colorNoiseGain, \* this.colorNoiseGain: noise generator id, 0 when null
  noiseGens,      \* the colour-noise generators that exist
  timers,         \* pending setTimeout / setInterval callbacks, oldest first
  calls,          \* number of host calls made so far
  last,           \* the most recent host call and its arguments
  app,            \* the App component: state, settings.duration, refs
  buf             \* the createNoiseBuffer call in progress: position, samples

vars == <<ctx, master, bus, osc, tones, natureNodes, nodes, colorNoiseNode,
          colorNoiseGain, noiseGens, timers, calls, last, app, buf>>

----------------------------------------------------------------------------
(* Bounds of the model *)

MaxNodes == 3
MaxNoiseGens == 3
MaxTimers == 4
MaxCalls == 3
MaxLag == 8000
MaxRate == 16

(* Program constants, in ms and in 1/10000 gain units *)

RAMP_TIME == 100
RELEASE_EXTRA == 50
NOISE_STOP_DELAY == 200
STOP_RAMP == 500
CLEANUP_DELAY == 600
START_RAMP == 1000
LOOKAHEAD_INTERVAL == 2000
scheduleWindow == 5000
FIRST_BIRD_DELAY == 1000
CHIRP_LENGTH == 500
FREQ_TIME_CONSTANT == 200
binauralBaseFreq == 200
FREQ_SCALE == 1000
Unity == 10000
EPS == 1
MASTER_CAP == 9500

Quantum == RELEASE_EXTRA \div 2
RELEASE_DELAY == RAMP_TIME + RELEASE_EXTRA

Kinds == {"SEA", "WIND", "BIRDS"}
KindOrder == <<"NONE", "SEA", "WIND", "BIRDS">>
Colors == {"WHITE", "PINK", "BROWN"}
Buses == {"binaural", "nature", "noise"}
NodeIds == 1 .. MaxNodes
NoiseIds == 1 .. MaxNoiseGens

Max(a, b) == IF a >= b THEN a ELSE b
Min(a, b) == IF a <= b THEN a ELSE b

----------------------------------------------------------------------------
(* AudioParam automation: one linear ramp from the value the parameter had *)
(* when the ramp was issued (from) to tgt, rem ms of its dur ms left.      *)

Ramp(from, tgt, time) == [from |-> from, tgt |-> tgt, rem |-> time, dur |-> time]
Const(v) == [from |-> v, tgt |-> v, rem |-> 0, dur |-> Quantum]

(* AudioParam.value while a linearRampToValueAtTime is running *)
Val(r) == IF r.rem = 0 THEN r.tgt
          ELSE r.from + ((r.tgt - r.from) * (r.dur - r.rem)) \div r.dur

(* the audio clock advances by Quantum *)
Advance(r) == IF r.rem = 0 THEN r
              ELSE IF r.rem = Quantum THEN Const(r.tgt)
              ELSE [r EXCEPT !.rem = r.rem - Quantum]

(* smoothGain without the setValueAtTime anchor at the current value *)
smoothGain_unanchored(r, value, time) == Ramp(r.from, Max(EPS, value), time)

(* smoothGain: cancelScheduledValues, setValueAtTime(current), linear ramp *)
smoothGain(r, value, time) == Ramp(Val(r), Max(EPS, value), time)

(* a fade-out that sets the gain to 0 at once *)
rampToZero_jump(r, time) == Const(0)

(* stop() and fadeOutNatureNode: the same anchoring, ramp to exactly 0 *)
rampToZero(r, time) == Ramp(Val(r), 0, time)

----------------------------------------------------------------------------
(* Objects *)

NoOsc == [id |-> 0, left |-> 0, right |-> 0, rightMode |-> "none", rightValue |-> 0,
          mergerInputs |-> 0, leftInput |-> {}, rightInput |-> {}]

FreeNode == [kind |-> "free", source |-> FALSE, lfo |-> FALSE, breeze |-> FALSE,
             gain |-> Const(0), lookaheadTimer |-> FALSE, nextBird |-> 0,
             chirps |-> {}]

FreeGen == [running |-> FALSE, color |-> "NONE", gain |-> Const(0)]

Timer(type, id, kind, rem) == [type |-> type, id |-> id, kind |-> kind, rem |-> rem]

(* the engine's fields as one value, so that the methods compose *)
Cur == [ctx |-> ctx, master |-> master, bus |-> bus, osc |-> osc, tones |-> tones,
        natureNodes |-> natureNodes, nodes |-> nodes,
        colorNoiseNode |-> colorNoiseNode, colorNoiseGain |-> colorNoiseGain,
        noiseGens |-> noiseGens, timers |-> timers, ok |-> TRUE]

RemoveTimers(ts, type, id) == SelectSeq(ts, LAMBDA t : ~(t.type = type /\ t.id = id))

(* a new object takes the first slot no live object occupies *)
FreeNodeId(e) == IF \E i \in NodeIds : e.nodes[i].kind = "free"
                 THEN CHOOSE i \in NodeIds : /\ e.nodes[i].kind = "free"
                                             /\ \A j \in NodeIds : e.nodes[j].kind = "free" => i <= j
                 ELSE 0

FreeGenId(e) == IF \E i \in NoiseIds : e.noiseGens[i] = FreeGen
                THEN CHOOSE i \in NoiseIds : /\ e.noiseGens[i] = FreeGen
                                             /\ \A j \in NoiseIds : e.noiseGens[j] = FreeGen => i <= j
                ELSE 0

----------------------------------------------------------------------------
(* AudioService methods, as functions from engine state to engine state *)

(* init without the early return when the context already exists *)
init_always(e) == [e EXCEPT !.ctx = TRUE, !.master = Const(0),
                            !.bus = [b \in Buses |-> Const(Unity)]]

(* the connect calls of init(): each bus into the master gain, the master  *)
(* gain into the limiter, the limiter into the two outputs                 *)
InitWiring ==
  { <<"binaural", "master">>, <<"nature", "master">>, <<"noise", "master">>,
    <<"master", "compressor">>,
    <<"compressor", "destination">>, <<"compressor", "mediaStreamDestination">> }

init(e) == IF e.ctx THEN e
           ELSE [e EXCEPT !.ctx = TRUE, !.master = Const(0),
                          !.bus = [b \in Buses |-> Const(Unity)]]

setBinauralVolume(e, v) ==
  IF e.ctx THEN [e EXCEPT !.bus["binaural"] = smoothGain(@, (v * 4) \div 10, RAMP_TIME)] ELSE e

(* a setMasterVolume that creates the context and the buses on demand *)
setMasterVolume_lazyinit(e, v) ==
  [init(e) EXCEPT !.master = smoothGain(@, Min(v, MASTER_CAP), RAMP_TIME)]

setMasterVolume(e, v) ==
  IF e.ctx THEN [e EXCEPT !.master = smoothGain(@, Min(v, MASTER_CAP), RAMP_TIME)] ELSE e

(* a setNatureVolume that moves the noise bus along with the nature bus *)
setNatureVolume_shared(e, v) ==
  IF e.ctx THEN [e EXCEPT !.bus["nature"] = smoothGain(@, (v * 6) \div 10, RAMP_TIME),
                          !.bus["noise"] = smoothGain(@, (v * 6) \div 10, RAMP_TIME)]
  ELSE e

setNatureVolume(e, v) ==
  IF e.ctx THEN [e EXCEPT !.bus["nature"] = smoothGain(@, (v * 6) \div 10, RAMP_TIME)] ELSE e

setNoiseVolume(e, v) ==
  IF e.ctx THEN [e EXCEPT !.bus["noise"] = smoothGain(@, v \div 10, RAMP_TIME)] ELSE e

(* updateFrequency that retunes both ears to the new offset *)
updateFrequency_both(e, freq) ==
  IF e.osc.id # 0 /\ e.ctx
  THEN [e EXCEPT !.osc.left = binauralBaseFreq + freq,
                 !.osc.right = binauralBaseFreq + freq, !.osc.rightMode = "target"]
  ELSE e

updateFrequency(e, freq) ==
  IF e.osc.id # 0 /\ e.ctx
  THEN [e EXCEPT !.osc.right = binauralBaseFreq + freq, !.osc.rightMode = "target"]
  ELSE e

(* fadeOutNatureNode without the clearInterval of the lookahead timer *)
fadeOutNatureNode_noclear(e, id, kind) ==
  IF ~e.ctx THEN e
  ELSE [e EXCEPT
         !.nodes[id].gain = rampToZero(@, RAMP_TIME),
         !.timers = Append(@, Timer("release", id, kind, RELEASE_DELAY))]

fadeOutNatureNode(e, id, kind) ==
  IF ~e.ctx THEN e
  ELSE [e EXCEPT
         !.nodes[id].gain = rampToZero(@, RAMP_TIME),
         !.timers = Append(IF e.nodes[id].lookaheadTimer
                           THEN RemoveTimers(@, "lookahead", id) ELSE @,
                           Timer("release", id, kind, RELEASE_DELAY))]

(* a burst whose oscillators are all stopped CHIRP_LENGTH after the burst  *)
(* starts, whenever they start themselves                                  *)
Burst_burststop(startTime, ch) ==
  { [start |-> startTime + (IF i = 0 THEN 0 ELSE i * ch.step[i]),
     stop  |-> startTime + CHIRP_LENGTH]
    : i \in 0 .. (ch.count - 1) }

(* one burst of the look-ahead scheduler: count chirps, chirp i starting   *)
(* i * step[i] after the burst's start and stopping CHIRP_LENGTH later     *)
Burst(startTime, ch) ==
  { [start |-> startTime + (IF i = 0 THEN 0 ELSE i * ch.step[i]),
     stop  |-> startTime + (IF i = 0 THEN 0 ELSE i * ch.step[i]) + CHIRP_LENGTH]
    : i \in 0 .. (ch.count - 1) }

(* the scheduler loop without look-ahead: while (nextBirdTime < currentTime) *)
RECURSIVE schedulerLoop_nowindow(_, _, _)
schedulerLoop_nowindow(e, id, chs) ==
  IF e.nodes[id].nextBird >= 0 THEN e
  ELSE IF chs = << >> THEN [e EXCEPT !.ok = FALSE]
  ELSE schedulerLoop_nowindow(
         [e EXCEPT !.nodes[id].chirps = @ \cup Burst(e.nodes[id].nextBird, Head(chs)),
                   !.nodes[id].nextBird = @ + Head(chs).gap],
         id, Tail(chs))

(* the scheduler closure of node id; chs are the random draws, one per     *)
(* iteration of its while loop                                             *)
RECURSIVE schedulerLoop(_, _, _)
schedulerLoop(e, id, chs) ==
  IF e.nodes[id].nextBird >= scheduleWindow THEN e
  ELSE IF chs = << >> THEN [e EXCEPT !.ok = FALSE]
  ELSE schedulerLoop(
         [e EXCEPT !.nodes[id].chirps = @ \cup Burst(e.nodes[id].nextBird, Head(chs)),
                   !.nodes[id].nextBird = @ + Head(chs).gap],
         id, Tail(chs))

(* a scheduler that gates the breeze bed off while it schedules chirps *)
scheduler_gated(e, id, chs) ==
  IF e.natureNodes["BIRDS"] = 0 \/ ~e.ctx THEN e
  ELSE schedulerLoop([e EXCEPT !.nodes[id].breeze = FALSE], id, chs)

scheduler(e, id, chs) ==
  IF e.natureNodes["BIRDS"] = 0 \/ ~e.ctx THEN e
  ELSE schedulerLoop(e, id, chs)

startBirdsSoundscape(e, chs) ==
  IF ~e.ctx THEN e
  ELSE LET id == FreeNodeId(e) IN
       IF id = 0 THEN [e EXCEPT !.ok = FALSE]
       ELSE scheduler(
              [e EXCEPT
                !.nodes[id] = [kind |-> "BIRDS", source |-> FALSE, lfo |-> FALSE,
                               breeze |-> TRUE,
                               gain |-> smoothGain(Const(0), Unity, RAMP_TIME),
                               lookaheadTimer |-> TRUE,
                               nextBird |-> FIRST_BIRD_DELAY, chirps |-> {}],
                !.timers = Append(@, Timer("lookahead", id, "BIRDS", LOOKAHEAD_INTERVAL)),
                !.natureNodes["BIRDS"] = id],
              id, chs)

startNature(e, type, chs) ==
  IF type = "NONE" \/ ~e.ctx THEN e
  ELSE IF type = "BIRDS" THEN startBirdsSoundscape(e, chs)
  ELSE LET id == FreeNodeId(e) IN
       IF id = 0 THEN [e EXCEPT !.ok = FALSE]
       ELSE [e EXCEPT
              !.nodes[id] = [kind |-> type, source |-> TRUE,
                             lfo |-> type \in {"WIND", "SEA"}, breeze |-> FALSE,
                             gain |-> smoothGain(Const(0), Unity, RAMP_TIME),
                             lookaheadTimer |-> FALSE, nextBird |-> 0, chirps |-> {}],
              !.natureNodes[type] = id]

(* natureNodes.forEach(fade every one), the includes() test left out *)
RECURSIVE fadeUnselected_all(_, _, _)
fadeUnselected_all(e, sel, i) ==
  IF i > Len(KindOrder) THEN e
  ELSE LET k == KindOrder[i] IN
       fadeUnselected_all(IF e.natureNodes[k] # 0
                          THEN fadeOutNatureNode(e, e.natureNodes[k], k) ELSE e,
                          sel, i + 1)

(* natureNodes.forEach(fade those not selected) *)
RECURSIVE fadeUnselected(_, _, _)
fadeUnselected(e, sel, i) ==
  IF i > Len(KindOrder) THEN e
  ELSE LET k == KindOrder[i] IN
       fadeUnselected(IF e.natureNodes[k] # 0 /\ k \notin sel
                      THEN fadeOutNatureNode(e, e.natureNodes[k], k) ELSE e,
                      sel, i + 1)

(* selectedNatures.forEach(start each one), the has() test left out *)
RECURSIVE startSelected_always(_, _, _, _)
startSelected_always(e, sel, chs, i) ==
  IF i > Len(KindOrder) THEN e
  ELSE LET k == KindOrder[i] IN
       startSelected_always(IF k \in sel THEN startNature(e, k, chs) ELSE e,
                            sel, chs, i + 1)

(* selectedNatures.forEach(start those not registered) *)
RECURSIVE startSelected(_, _, _, _)
startSelected(e, sel, chs, i) ==
  IF i > Len(KindOrder) THEN e
  ELSE LET k == KindOrder[i] IN
       startSelected(IF k \in sel /\ e.natureNodes[k] = 0
                     THEN startNature(e, k, chs) ELSE e,
                     sel, chs, i + 1)

updateNatures(e, sel, chs) ==
  IF ~e.ctx THEN e
  ELSE startSelected(fadeUnselected(e, sel, 1), sel, chs, 1)

(* updateNoise that stops the old source in the call instead of by timer *)
updateNoise_hardswitch(e, color) ==
  IF ~e.ctx THEN e
  ELSE LET faded ==
             IF e.colorNoiseNode # 0
             THEN [e EXCEPT !.noiseGens[e.colorNoiseNode].running = FALSE,
                            !.colorNoiseNode = 0]
             ELSE e
           id == FreeGenId(faded)
       IN IF color = "NONE" THEN faded
          ELSE IF id = 0 THEN [faded EXCEPT !.ok = FALSE]
          ELSE [faded EXCEPT
                 !.noiseGens[id] = [running |-> TRUE, color |-> color,
                                    gain |-> smoothGain(Const(0), Unity, RAMP_TIME)],
                 !.colorNoiseGain = id,
                 !.colorNoiseNode = id]

updateNoise(e, color) ==
  IF ~e.ctx THEN e
  ELSE LET faded ==
             IF e.colorNoiseGain # 0
             THEN [e EXCEPT
                    !.noiseGens[e.colorNoiseGain].gain = smoothGain(@, 0, RAMP_TIME),
                    !.timers = Append(@, Timer("noiseStop", e.colorNoiseNode, "", NOISE_STOP_DELAY))]
             ELSE e
           id == FreeGenId(faded)
       IN IF color = "NONE" THEN faded
          ELSE IF id = 0 THEN [faded EXCEPT !.ok = FALSE]
          ELSE [faded EXCEPT
                 !.noiseGens[id] = [running |-> TRUE, color |-> color,
                                    gain |-> smoothGain(Const(0), Unity, RAMP_TIME)],
                 !.colorNoiseGain = id,
                 !.colorNoiseNode = id]

(* stop() with its release timer set shorter than the master fade *)
stop_early(e) ==
  IF ~e.ctx THEN e
  ELSE [e EXCEPT !.master = rampToZero(@, STOP_RAMP),
                 !.timers = Append(@, Timer("cleanup", 0, "", STOP_RAMP - RAMP_TIME))]

stop(e) ==
  IF ~e.ctx THEN e
  ELSE [e EXCEPT !.master = rampToZero(@, STOP_RAMP),
                 !.timers = Append(@, Timer("cleanup", 0, "", CLEANUP_DELAY))]

RECURSIVE fadeAll(_, _)
fadeAll(e, i) ==
  IF i > Len(KindOrder) THEN e
  ELSE LET k == KindOrder[i] IN
       fadeAll(IF e.natureNodes[k] # 0
               THEN fadeOutNatureNode(e, e.natureNodes[k], k) ELSE e, i + 1)

cleanupNodes(e) ==
  LET a == fadeAll([e EXCEPT !.tones = @ \ {e.osc.id}, !.osc = NoOsc], 1) IN
  IF a.colorNoiseNode # 0
  THEN [a EXCEPT !.noiseGens[a.colorNoiseNode].running = FALSE,
                 !.colorNoiseNode = 0]
  ELSE a

(* the tone pair a start() creates is a new object *)
NewOscId(e) == CHOOSE i \in 1 .. (Cardinality(e.tones) + 2) :
                 /\ i \notin e.tones \cup {e.osc.id}
                 /\ \A j \in 1 .. (i - 1) : j \in e.tones \cup {e.osc.id}

(* start() with both oscillators connected to input 0 of the merger *)
start_mono(e, natures, noise, freq, vol, chs) ==
  LET a == cleanupNodes(init(e))
      b == [a EXCEPT !.osc = [id |-> NewOscId(e), left |-> binauralBaseFreq,
                              right |-> binauralBaseFreq + freq, rightMode |-> "value",
                              rightValue |-> (binauralBaseFreq + freq) * FREQ_SCALE,
                              mergerInputs |-> 2, leftInput |-> {0}, rightInput |-> {0}],
                     !.tones = @ \cup {NewOscId(e)}]
      c == updateNoise(updateNatures(b, natures, chs), noise)
  IN [c EXCEPT !.master = smoothGain(@, vol, START_RAMP)]

start(e, natures, noise, freq, vol, chs) ==
  LET a == cleanupNodes(init(e))
      b == [a EXCEPT !.osc = [id |-> NewOscId(e), left |-> binauralBaseFreq,
                              right |-> binauralBaseFreq + freq, rightMode |-> "value",
                              rightValue |-> (binauralBaseFreq + freq) * FREQ_SCALE,
                              mergerInputs |-> 2, leftInput |-> {0}, rightInput |-> {1}],
                     !.tones = @ \cup {NewOscId(e)}]
      c == updateNoise(updateNatures(b, natures, chs), noise)
  IN [c EXCEPT !.master = smoothGain(@, vol, START_RAMP)]

----------------------------------------------------------------------------
(* Timer callbacks *)

(* the setTimeout callback of fadeOutNatureNode(node, type) *)
releaseCallback(e, id, kind) ==
  [e EXCEPT !.nodes[id].source = FALSE, !.nodes[id].lfo = FALSE,
            !.nodes[id].breeze = FALSE, !.natureNodes[kind] = 0]

(* the setTimeout callback of updateNoise: oldNode?.stop() *)
noiseStopCallback(e, id) ==
  IF id = 0 THEN e ELSE [e EXCEPT !.noiseGens[id].running = FALSE]

(* the setTimeout callback of stop() *)
cleanupCallback(e) == cleanupNodes(e)

(* the scheduler run from a one-shot timer instead of an interval *)
lookaheadCallback_oneshot(e, id, chs) == scheduler(e, id, chs)

(* the setInterval callback of startBirdsSoundscape, re-armed by the host *)
lookaheadCallback(e, id, chs) ==
  scheduler([e EXCEPT !.timers = Append(@, Timer("lookahead", id, "BIRDS", LOOKAHEAD_INTERVAL))],
            id, chs)

----------------------------------------------------------------------------
(* Passage of time and reclamation of dead objects *)

HasTimer(e, type, id) == \E i \in 1 .. Len(e.timers) :
                            e.timers[i].type = type /\ e.timers[i].id = id

Registered(e, id) == \E k \in DOMAIN e.natureNodes : e.natureNodes[k] = id

Sounding(n) == n.source \/ n.lfo \/ n.breeze

NodeLive(e, id) == \/ Registered(e, id)
                   \/ Sounding(e.nodes[id])
                   \/ e.nodes[id].chirps # {}
                   \/ HasTimer(e, "release", id)
                   \/ HasTimer(e, "lookahead", id)

GenLive(e, id) == \/ e.noiseGens[id].running
                  \/ e.colorNoiseNode = id
                  \/ e.colorNoiseGain = id
                  \/ HasTimer(e, "noiseStop", id)

(* objects nothing refers to any more are garbage; a closure variable of a *)
(* cleared interval can no longer be read                                  *)
Collect(e) ==
  [e EXCEPT
    !.nodes = [i \in NodeIds |->
                 IF ~NodeLive(e, i) THEN FreeNode
                 ELSE IF ~HasTimer(e, "lookahead", i) THEN [e.nodes[i] EXCEPT !.nextBird = 0]
                 ELSE e.nodes[i]],
    !.noiseGens = [i \in NoiseIds |-> IF GenLive(e, i) THEN e.noiseGens[i] ELSE FreeGen]]

AdvanceChirps(cs) ==
  { [start |-> c.start - Quantum, stop |-> c.stop - Quantum] : c \in { d \in cs : d.stop > Quantum } }

AdvanceNode(n) ==
  [n EXCEPT !.gain = Advance(@),
            !.nextBird = IF n.kind = "BIRDS" THEN Max(@ - Quantum, 0 - MaxLag) ELSE @,
            !.chirps = AdvanceChirps(@)]

(* the value of the frequency param one quantum later when it jumps to    *)
(* the target                                                              *)
setTargetAtTime_jump(v, tgt) == tgt

(* the value of a param under setTargetAtTime(tgt, t0, 0.2) one quantum    *)
(* later: the distance to the target shrinks by exp(-Quantum / 200 ms) =   *)
(* 0.8825, rounded toward the target                                       *)
setTargetAtTime(v, tgt) ==
  IF v >= tgt THEN tgt + ((v - tgt) * 8825) \div 10000
  ELSE tgt - ((tgt - v) * 8825) \div 10000

AdvanceOsc(o) ==
  IF o.id # 0 /\ o.rightMode = "target"
  THEN [o EXCEPT !.rightValue = setTargetAtTime(@, o.right * FREQ_SCALE)]
  ELSE o

AdvanceTime(e) ==
  [e EXCEPT
    !.master = Advance(@),
    !.osc = AdvanceOsc(@),
    !.bus = [b \in Buses |-> Advance(e.bus[b])],
    !.nodes = [i \in NodeIds |-> AdvanceNode(e.nodes[i])],
    !.noiseGens = [i \in NoiseIds |-> [e.noiseGens[i] EXCEPT !.gain = Advance(@)]],
    !.timers = [i \in 1 .. Len(e.timers) |-> [e.timers[i] EXCEPT !.rem = @ - Quantum]]]

(* index of the timer the event loop runs next: the oldest one that is due *)
DueTimer == IF \E i \in 1 .. Len(timers) : timers[i].rem <= 0
            THEN CHOOSE i \in 1 .. Len(timers) :
                   /\ timers[i].rem <= 0
                   /\ \A j \in 1 .. (i - 1) : timers[j].rem > 0
            ELSE 0

WithoutTimer(e, i) == [e EXCEPT !.timers = SubSeq(@, 1, i - 1) \o SubSeq(@, i + 1, Len(@))]

----------------------------------------------------------------------------
(* createNoiseBuffer: samples are integers, Amp is the level 1.0 *)

Amp == 100
BUFFER_SECONDS == 15

Abs(x) == IF x >= 0 THEN x ELSE 0 - x

NoFilter == [b0 |-> 0, b1 |-> 0, b2 |-> 0, b3 |-> 0, b4 |-> 0, b5 |-> 0, b6 |-> 0,
             lastOut |-> 0]

NoBuffer == [phase |-> "idle", type |-> "white", rate |-> 0, fill |-> << >>, i |-> 0,
             output |-> << >>, f |-> NoFilter]

(* bufferSize = duration * sampleRate; fade = floor(0.5 * sampleRate) *)
bufferSize(rate) == BUFFER_SECONDS * rate
fade(rate) == rate \div 2

(* the pink loop with b6 assigned before the sample is computed *)
pinkSample_nolag(f, white) ==
  LET b0 == (99886 * f.b0) \div 100000 + (white * 555179) \div 10000000
      b1 == (99332 * f.b1) \div 100000 + (white * 750759) \div 10000000
      b2 == (96900 * f.b2) \div 100000 + (white * 1538520) \div 10000000
      b3 == (86650 * f.b3) \div 100000 + (white * 3104856) \div 10000000
      b4 == (55000 * f.b4) \div 100000 + (white * 5329522) \div 10000000
      b5 == (0 - 7616 * f.b5) \div 10000 - (white * 168980) \div 10000000
      b6 == (white * 115926) \div 1000000
  IN [f |-> [b0 |-> b0, b1 |-> b1, b2 |-> b2, b3 |-> b3, b4 |-> b4, b5 |-> b5,
             b6 |-> b6, lastOut |-> f.lastOut],
      out |-> ((b0 + b1 + b2 + b3 + b4 + b5 + b6 + (white * 5362) \div 10000) * 11) \div 100]

(* one iteration of the pink loop: the filter state after it and the sample *)
pinkSample(f, white) ==
  LET b0 == (99886 * f.b0) \div 100000 + (white * 555179) \div 10000000
      b1 == (99332 * f.b1) \div 100000 + (white * 750759) \div 10000000
      b2 == (96900 * f.b2) \div 100000 + (white * 1538520) \div 10000000
      b3 == (86650 * f.b3) \div 100000 + (white * 3104856) \div 10000000
      b4 == (55000 * f.b4) \div 100000 + (white * 5329522) \div 10000000
      b5 == (0 - 7616 * f.b5) \div 10000 - (white * 168980) \div 10000000
  IN [f |-> [b0 |-> b0, b1 |-> b1, b2 |-> b2, b3 |-> b3, b4 |-> b4, b5 |-> b5,
             b6 |-> (white * 115926) \div 1000000, lastOut |-> f.lastOut],
      out |-> ((b0 + b1 + b2 + b3 + b4 + b5 + f.b6 + (white * 5362) \div 10000) * 11) \div 100]

(* a brown loop that scales the sample before it is fed back *)
brownSample_scaledfeedback(f, white) ==
  LET o == (100 * f.lastOut + 2 * white) \div 102
  IN [f |-> [f EXCEPT !.lastOut = (o * 35) \div 10], out |-> (o * 35) \div 10]

(* one iteration of the brown loop *)
brownSample(f, white) ==
  LET o == (100 * f.lastOut + 2 * white) \div 102
  IN [f |-> [f EXCEPT !.lastOut = o], out |-> (o * 35) \div 10]

(* one iteration of the colour loop selected by type *)
shapeSample(type, f, white) ==
  IF type = "white" THEN [f |-> f, out |-> white]
  ELSE IF type = "pink" THEN pinkSample(f, white)
  ELSE brownSample(f, white)

(* a crossfade that also blends the tail sample it reads *)
crossfadeSample_symmetric(output, i, rate) ==
  LET n == bufferSize(rate)
      w == fade(rate)
      v == (output[i + 1] * i + output[n - w + i + 1] * (w - i)) \div w
  IN [output EXCEPT ![i + 1] = v, ![n - w + i + 1] = v]

(* one iteration of the crossfade loop; sample k is output[k + 1] *)
crossfadeSample(output, i, rate) ==
  LET n == bufferSize(rate)
      w == fade(rate)
  IN [output EXCEPT ![i + 1] = (output[i + 1] * i + output[n - w + i + 1] * (w - i)) \div w]

----------------------------------------------------------------------------
(* The App component (src/App.tsx): play state, countdown, refs *)

DEFAULT_DURATION == 30
MIN_DURATION == 1
COUNTDOWN_PERIOD == 500
SECONDS_PER_MINUTE == 60
MS_PER_SECOND == 1000

(* useState initial values and the refs; endIn is endTimeRef.current       *)
(* minus Date.now(), pending the togglePlay invocations awaiting start()   *)
InitApp == [isPlaying |-> FALSE, timeLeft |-> DEFAULT_DURATION * SECONDS_PER_MINUTE,
            duration |-> DEFAULT_DURATION, endSet |-> FALSE, endIn |-> 0,
            timerRef |-> 0, pending |-> 0, failures |-> 0,
            selectedNatures |-> <<"SEA">>]

(* the settings that are not changed here *)
settings == [binauralVolume |-> 5000, natureVolume |-> 5000, noiseVolume |-> 2000,
             masterVolume |-> 6000, frequency |-> 5, selectedNoise |-> "NONE"]

(* settings.selectedNatures as the set of its elements *)
Selected == { app.selectedNatures[i] : i \in DOMAIN app.selectedNatures }

(* toggleNature without the shift() that evicts the oldest kind *)
toggleNature_noshift(sel, sound) ==
  IF sound = "NONE" THEN << >>
  ELSE IF \E i \in DOMAIN sel : sel[i] = sound
  THEN SelectSeq(sel, LAMBDA n : n # sound)
  ELSE Append(sel, sound)

(* toggleNature(sound) of Controls: the new settings.selectedNatures *)
toggleNature(sel, sound) ==
  IF sound = "NONE" THEN << >>
  ELSE IF \E i \in DOMAIN sel : sel[i] = sound
  THEN SelectSeq(sel, LAMBDA n : n # sound)
  ELSE Append(IF Len(sel) >= 2 THEN Tail(sel) ELSE sel, sound)

(* the effect on [settings, state.isPlaying], run when isPlaying is true *)
settingsEffect(e) ==
  LET a == setBinauralVolume(e, settings.binauralVolume)
      b == setNatureVolume(a, settings.natureVolume)
      c == setNoiseVolume(b, settings.noiseVolume)
      d == setMasterVolume(c, settings.masterVolume)
      f == updateFrequency(d, settings.frequency)
      g == updateNatures(f, Selected, << >>)
  IN updateNoise(g, settings.selectedNoise)

(* the synchronous part of resumeIfSuspended(), up to its await *)
resumeIfSuspended(e) == init(e)

(* start() whose cleanupNodes() runs before the await that rejects *)
startAborted_cleaned(e) == cleanupNodes(e)

(* start() after its await of resumeIfSuspended() rejected: the rest of    *)
(* the body does not run                                                   *)
startAborted(e) == e

Countdowns(ts) == { ts[i].id : i \in { j \in 1 .. Len(ts) : ts[j].type = "countdown" } }

(* window.setInterval returns an id no live interval has *)
NewIntervalId(ts) == CHOOSE i \in 1 .. (Cardinality(Countdowns(ts)) + 1) :
                       /\ i \notin Countdowns(ts)
                       /\ \A j \in 1 .. (i - 1) : j \in Countdowns(ts)

(* clearInterval(timerRef.current), guarded by if (timerRef.current) *)
clearCountdown(e, a) ==
  IF a.timerRef # 0 THEN [e EXCEPT !.timers = RemoveTimers(@, "countdown", a.timerRef)] ELSE e

(* the id of a cleared interval and an end time no interval callback is    *)
(* left to read can no longer be observed                                  *)
CollectApp(a, ts) ==
  [a EXCEPT !.timerRef = IF @ \in Countdowns(ts) THEN @ ELSE 0,
            !.endSet = IF Countdowns(ts) = {} THEN FALSE ELSE @,
            !.endIn = IF Countdowns(ts) = {} THEN 0 ELSE @]

(* Date.now() moves on; the countdown reads max(0, ...) of the difference *)
AdvanceApp(a) == [a EXCEPT !.endIn = Max(@ - Quantum, 0)]

----------------------------------------------------------------------------
(* State machine *)

Commit(r) ==
  /\ r.ok
  /\ Len(r.timers) <= MaxTimers
  /\ LET n == Collect(r) IN
       /\ ctx' = n.ctx
       /\ master' = n.master
       /\ bus' = n.bus
       /\ osc' = n.osc
       /\ tones' = n.tones
       /\ natureNodes' = n.natureNodes
       /\ nodes' = n.nodes
       /\ colorNoiseNode' = n.colorNoiseNode
       /\ colorNoiseGain' = n.colorNoiseGain
       /\ noiseGens' = n.noiseGens
       /\ timers' = n.timers
  /\ buf' = buf

HostCall(op, arg, r) == /\ calls' = calls + 1
                        /\ last' = [op |-> op, arg |-> arg]
                        /\ Commit(r)
                        /\ app' = app

Init ==
  /\ ctx = FALSE
  /\ master = Const(0)
  /\ bus = [b \in Buses |-> Const(Unity)]
  /\ osc = NoOsc
  /\ tones = {}
  /\ natureNodes = [k \in Kinds \cup {"NONE"} |-> 0]
  /\ nodes = [i \in NodeIds |-> FreeNode]
  /\ colorNoiseNode = 0
  /\ colorNoiseGain = 0
  /\ noiseGens = [i \in NoiseIds |-> FreeGen]
  /\ timers = << >>
  /\ calls = 0
  /\ last = [op |-> "none", arg |-> 0]
  /\ app = InitApp
  /\ buf = NoBuffer

AppStep(op, r, a) == /\ last' = [op |-> op, arg |-> 0]
                     /\ Commit(r)
                     /\ app' = CollectApp(a, timers')

InitEngine == HostCall("init", 0, init(Cur))
Start(natures, noise, freq, vol, chs) ==
  HostCall("start", [natures |-> natures, noise |-> noise, freq |-> freq, vol |-> vol],
           start(Cur, natures, noise, freq, vol, chs))
Stop == HostCall("stop", 0, stop(Cur))
UpdateNatures(sel, chs) == HostCall("updateNatures", sel, updateNatures(Cur, sel, chs))
UpdateNoise(color) == HostCall("updateNoise", color, updateNoise(Cur, color))
UpdateFrequency(freq) == HostCall("updateFrequency", freq, updateFrequency(Cur, freq))
SetMasterVolume(v) == HostCall("setMasterVolume", v, setMasterVolume(Cur, v))
SetBinauralVolume(v) == HostCall("setBinauralVolume", v, setBinauralVolume(Cur, v))
SetNatureVolume(v) == HostCall("setNatureVolume", v, setNatureVolume(Cur, v))
SetNoiseVolume(v) == HostCall("setNoiseVolume", v, setNoiseVolume(Cur, v))

FireCleanup ==
  /\ DueTimer # 0
  /\ timers[DueTimer].type = "cleanup"
  /\ Commit(cleanupCallback(WithoutTimer(Cur, DueTimer)))
  /\ UNCHANGED <<calls, last, app>>

FireRelease ==
  /\ DueTimer # 0
  /\ timers[DueTimer].type = "release"
  /\ Commit(releaseCallback(WithoutTimer(Cur, DueTimer), timers[DueTimer].id, timers[DueTimer].kind))
  /\ UNCHANGED <<calls, last, app>>

FireNoiseStop ==
  /\ DueTimer # 0
  /\ timers[DueTimer].type = "noiseStop"
  /\ Commit(noiseStopCallback(WithoutTimer(Cur, DueTimer), timers[DueTimer].id))
  /\ UNCHANGED <<calls, last, app>>

FireLookahead(chs) ==
  /\ DueTimer # 0
  /\ timers[DueTimer].type = "lookahead"
  /\ Commit(lookaheadCallback(WithoutTimer(Cur, DueTimer), timers[DueTimer].id, chs))
  /\ UNCHANGED <<calls, last, app>>

Tick ==
  /\ DueTimer = 0
  /\ AdvanceTime(Cur) # Cur
  /\ Commit(AdvanceTime(Cur))
  /\ app' = AdvanceApp(app)
  /\ UNCHANGED <<calls, last>>

(* the host does not run the due lookahead callback (page in the           *)
(* background, main thread busy) while the audio clock goes on; a negative *)
(* rem is the time the callback is overdue                                 *)
Starve ==
  /\ DueTimer # 0
  /\ timers[DueTimer].type = "lookahead"
  /\ timers[DueTimer].rem > 0 - MaxLag
  /\ Commit(AdvanceTime(Cur))
  /\ app' = AdvanceApp(app)
  /\ UNCHANGED <<calls, last>>

(* updateSettings({duration: d}); the slider is disabled while playing *)
UpdateDuration(d) ==
  /\ ~app.isPlaying
  /\ AppStep("updateSettings", Cur, [app EXCEPT !.duration = d, !.timeLeft = d * SECONDS_PER_MINUTE])
  /\ UNCHANGED calls

(* a soundscape button of Controls pressed while no session plays *)
ToggleNature(sound) ==
  /\ ~app.isPlaying
  /\ last' = [op |-> "toggleNature", arg |-> sound]
  /\ Commit(Cur)
  /\ app' = [app EXCEPT !.selectedNatures = toggleNature(@, sound)]
  /\ UNCHANGED calls

(* togglePlay up to its await: the stop branch whole, the start branch up  *)
(* to the await inside audioService.start()                                *)
TogglePlay ==
  /\ calls' = calls + 1
  /\ IF app.isPlaying
     THEN AppStep("togglePlay", clearCountdown(stop(Cur), app), [app EXCEPT !.isPlaying = FALSE])
     ELSE AppStep("togglePlay", resumeIfSuspended(Cur), [app EXCEPT !.pending = @ + 1])

(* togglePlay when new AudioContext() throws inside init(): this.ctx stays *)
(* null and the rejection of start() reaches nobody                        *)
TogglePlayNoDevice ==
  /\ ~app.isPlaying
  /\ ~ctx
  /\ calls' = calls + 1
  /\ AppStep("startRejected", startAborted(Cur), [app EXCEPT !.failures = @ + 1])

(* ctx.resume() rejects: start() and togglePlay reject at their awaits *)
StartRejected ==
  /\ app.pending > 0
  /\ AppStep("startRejected", startAborted(Cur),
             [app EXCEPT !.pending = @ - 1, !.failures = @ + 1])
  /\ UNCHANGED calls

(* the await resolves: the rest of start(), the rest of togglePlay, then   *)
(* the settings effect of the render that shows isPlaying                  *)
StartResolved ==
  /\ app.pending > 0
  /\ LET r == start(Cur, Selected, settings.selectedNoise,
                    settings.frequency, settings.masterVolume, << >>)
         id == NewIntervalId(r.timers)
         t == [r EXCEPT !.timers = Append(@, Timer("countdown", id, "", COUNTDOWN_PERIOD))]
     IN AppStep("start", settingsEffect(t),
                [app EXCEPT !.pending = @ - 1, !.isPlaying = TRUE,
                            !.timeLeft = app.duration * SECONDS_PER_MINUTE,
                            !.endSet = TRUE,
                            !.endIn = app.duration * SECONDS_PER_MINUTE * MS_PER_SECOND,
                            !.timerRef = id])
  /\ UNCHANGED calls

(* the setInterval callback of togglePlay, re-armed by the host *)
FireCountdown ==
  /\ DueTimer # 0
  /\ timers[DueTimer].type = "countdown"
  /\ LET e == [WithoutTimer(Cur, DueTimer) EXCEPT
                 !.timers = Append(@, Timer("countdown", timers[DueTimer].id, "", COUNTDOWN_PERIOD))]
         remaining == Max(0, app.endIn \div MS_PER_SECOND)
     IN /\ IF ~app.endSet THEN Commit(e) /\ app' = CollectApp(app, timers')
           ELSE IF remaining <= 0
           THEN /\ Commit(clearCountdown(stop(e), app))
                /\ app' = CollectApp([app EXCEPT !.isPlaying = FALSE, !.timeLeft = 0], timers')
           ELSE /\ Commit(e)
                /\ app' = CollectApp([app EXCEPT !.timeLeft = remaining], timers')
  /\ UNCHANGED <<calls, last>>

Untouched == UNCHANGED <<ctx, master, bus, osc, tones, natureNodes, nodes, colorNoiseNode,
                         colorNoiseGain, noiseGens, timers, calls, last, app>>

(* createNoiseBuffer(type) entered: createBuffer gives bufferSize zeros *)
CreateNoiseBuffer(type, rate, fill) ==
  /\ buf.phase \in {"idle", "done"}
  /\ buf' = [phase |-> "shape", type |-> type, rate |-> rate, fill |-> fill, i |-> 0,
             output |-> [k \in 1 .. bufferSize(rate) |-> 0], f |-> NoFilter]
  /\ Untouched

(* one iteration of the colour loop; after the last one the crossfade loop *)
(* is entered                                                              *)
ShapeStep(white) ==
  /\ buf.phase = "shape"
  /\ LET s == shapeSample(buf.type, buf.f, white)
         more == buf.i + 1 < bufferSize(buf.rate)
     IN buf' = [buf EXCEPT !.output[buf.i + 1] = s.out,
                           !.f = IF more THEN s.f ELSE NoFilter,
                           !.i = IF more THEN @ + 1 ELSE 0,
                           !.phase = IF more THEN "shape" ELSE "fade"]
  /\ Untouched

(* one iteration of the crossfade loop; after the last one the buffer is   *)
(* returned                                                                *)
FadeStep ==
  /\ buf.phase = "fade"
  /\ LET more == buf.i + 1 < fade(buf.rate)
     IN buf' = [buf EXCEPT !.output = crossfadeSample(@, buf.i, buf.rate),
                           !.i = IF more THEN @ + 1 ELSE 0,
                           !.phase = IF more THEN "fade" ELSE "done"]
  /\ Untouched

(* the draws of one scheduler run: number of chirps, chirp spacing, gap *)
BurstChoices ==
  { [count |-> 2, step |-> <<200>>, gap |-> 6000],
    [count |-> 3, step |-> <<450, 200>>, gap |-> 12000],
    [count |-> 4, step |-> <<200, 450, 450>>, gap |-> 10000] }

Draws == { <<c>> : c \in BurstChoices }

NoDraws == { << >> }

(* the draws of a scheduler run that is overdue by at most MaxLag: the     *)
(* while loop iterates once per MIN_GAP of the time to cover               *)
MIN_GAP == 6000
MAX_GAP == 14000
MIN_COUNT == 2
MAX_COUNT == 4
MaxBurstsPerRun == ((MaxLag + LOOKAHEAD_INTERVAL) \div MIN_GAP) + 1
DrawSeqs == [1 .. MaxBurstsPerRun -> BurstChoices]

(* timer callbacks and the clock, for sessions without the birds layer *)
Timers == FireCleanup \/ FireRelease \/ FireNoiseStop \/ Tick

(* the engine under start, stop and master volume calls in any order *)
Next ==
  \/ /\ calls < MaxCalls
     /\ \/ Start({"SEA"}, "PINK", 5, 6000, << >>)
        \/ Stop
        \/ SetMasterVolume(2000)
  \/ Timers

Spec == Init /\ [][Next]_vars

----------------------------------------------------------------------------
(* Predicates the properties share *)

CleanupPending == \E i \in 1 .. Len(timers) : timers[i].type = "cleanup"
ReleasePending == \E i \in 1 .. Len(timers) : timers[i].type = "release"
NoiseStopPending == \E i \in 1 .. Len(timers) : timers[i].type = "noiseStop"

(* the master gain is at 0 and nothing is moving it *)
MasterSilent == master.tgt = 0 /\ master.rem = 0

IsCall(op) == calls' = calls + 1 /\ last'.op = op

(* the step stops no generator of the session: the tone pair, the current  *)
(* noise generator and every layer whose removal has not begun keep running *)
SessionKept ==
  /\ tones \subseteq tones'
  /\ colorNoiseNode # 0 /\ noiseGens[colorNoiseNode].running
       => noiseGens'[colorNoiseNode].running
  /\ \A i \in NodeIds :
       Sounding(nodes[i]) /\ ~HasTimer(Cur, "release", i)
         => /\ nodes'[i].source = nodes[i].source
            /\ nodes'[i].lfo = nodes[i].lfo
            /\ nodes'[i].breeze = nodes[i].breeze

----------------------------------------------------------------------------
(* One session: started, adjusted while it plays, stopped, and then left   *)
(* alone                                                                   *)

NextQuietStop ==
  \/ /\ calls < MaxCalls
     /\ last.op # "stop"
     /\ \/ /\ calls = 0
           /\ \E n \in {{"SEA"}, {"SEA", "WIND"}}, c \in {"PINK", "NONE"} :
                Start(n, c, 5, 6000, << >>)
        \/ calls > 0 /\ UpdateNatures({"WIND"}, << >>)
        \/ calls > 0 /\ UpdateNoise("BROWN")
        \/ calls > 0 /\ SetMasterVolume(2000)
        \/ calls > 0 /\ Stop
  \/ Timers

SpecQuietStop == Init /\ [][NextQuietStop]_vars

----------------------------------------------------------------------------
(* stop() followed by start() after any delay *)

NextStopStart ==
  \/ /\ calls = 0
     /\ \E n \in {{"SEA"}, {"SEA", "WIND"}}, c \in {"PINK", "NONE"} : Start(n, c, 5, 6000, << >>)
  \/ /\ calls = 1
     /\ Stop
  \/ /\ calls = 2
     /\ \E n \in {{"SEA"}, {"WIND"}}, c \in {"PINK", "BROWN", "NONE"} : Start(n, c, 5, 6000, << >>)
  \/ Timers

SpecStopStart == Init /\ [][NextStopStart]_vars

SoundingOfKind(k) == { i \in NodeIds : nodes[i].kind = k /\ Sounding(nodes[i]) }
NoiseNotFading == { g \in NoiseIds : noiseGens[g].running /\ noiseGens[g].gain.tgt = Unity }

(* C2: through stop() followed by start() at any delay there are never two *)
(* running tone pairs, two running generators of one nature kind, or two   *)
(* running noise generators that are not fading out.                       *)
C2_NoDoubleVoice ==
  /\ Cardinality(tones) <= 1
  /\ \A k \in Kinds : Cardinality(SoundingOfKind(k)) <= 1
  /\ Cardinality(NoiseNotFading) <= 1

(* the start() came while the stop's cleanup and a layer release were pending *)
C2_Witness ==
  /\ calls = 3
  /\ CleanupPending
  /\ ReleasePending
  /\ Cardinality(tones) = 1

----------------------------------------------------------------------------
(* One session whose nature selection is changed while it plays *)

NextNatures ==
  \/ /\ calls = 0
     /\ \E n \in {{"SEA"}, {"SEA", "WIND"}} : Start(n, "NONE", 5, 6000, << >>)
  \/ /\ calls > 0
     /\ calls < MaxCalls
     /\ \E n \in {{}, {"SEA"}, {"WIND", "NONE"}} : UpdateNatures(n, << >>)
  \/ FireRelease
  \/ Tick

SpecNatures == Init /\ [][NextNatures]_vars

Running(k) == natureNodes[k] # 0 /\ Sounding(nodes[natureNodes[k]])

(* C3: once the release timers have fired, a kind has a running registered *)
(* layer exactly if the last updateNatures call included it.               *)
C3_LastCallWins ==
  (last.op = "updateNatures" /\ ~ReleasePending)
    => \A k \in Kinds : Running(k) <=> k \in last.arg

----------------------------------------------------------------------------
(* start() in whatever state the engine is *)

(* C4: once start() has returned and every pending timer has fired, with   *)
(* no other call in between, a tone pair runs, every requested kind has a  *)
(* running registered layer whose gain targets unity, and a noise          *)
(* generator runs exactly if a colour was requested.                       *)
C4_FullyStarted ==
  (last.op = "start" /\ timers = << >>)
    => /\ osc.id # 0
       /\ osc.id \in tones
       /\ \A k \in last.arg.natures \ {"NONE"} :
            Running(k) /\ nodes[natureNodes[k]].gain.tgt = Unity
       /\ (last.arg.noise # "NONE")
            <=> (colorNoiseNode # 0 /\ noiseGens[colorNoiseNode].running)

(* C9: whenever a step stops a tone pair or hard-stops the current noise   *)
(* source (cleanupNodes), the master gain is at silence.                   *)
C9_HardStopOnlyWhenSilent ==
  [][ ( \/ \E id \in tones : id \notin tones'
        \/ /\ colorNoiseNode # 0
           /\ noiseGens[colorNoiseNode].running
           /\ colorNoiseNode' # colorNoiseNode
           /\ ~noiseGens'[colorNoiseNode].running )
      => MasterSilent ]_vars


----------------------------------------------------------------------------
(* The end-to-end scenario: start([SEA], NONE, 5, 0.6), setNatureVolume(0.2), *)
(* updateNatures([SEA, WIND]), stop(), at any spacing                         *)

NextScenario ==
  \/ calls = 0 /\ Start({"SEA"}, "NONE", 5, 6000, << >>)
  \/ calls = 1 /\ SetNatureVolume(2000)
  \/ calls = 2 /\ UpdateNatures({"SEA", "WIND"}, << >>)
  \/ calls = 3 /\ Stop
  \/ FireCleanup
  \/ FireRelease
  \/ Tick

SpecScenario == Init /\ [][NextScenario]_vars

FreshLayer(k) == [kind |-> k, source |-> TRUE, lfo |-> TRUE, breeze |-> FALSE,
                  gain |-> Ramp(0, Unity, RAMP_TIME), lookaheadTimer |-> FALSE,
                  nextBird |-> 0, chirps |-> {}]

(* C5: start creates the sea layer and ramps it from silence to unity;     *)
(* setNatureVolume ramps the nature bus to 0.12; updateNatures creates     *)
(* wind, ramps it in and leaves the sea layer as it is; from stop() until  *)
(* the master ramp has reached 0 the tone pair, sea and wind keep running, *)
(* and once the timers have fired everything is released.                  *)
C5_Scenario ==
  [][ /\ IsCall("start")
         => /\ natureNodes'["SEA"] # 0
            /\ nodes'[natureNodes'["SEA"]] = FreshLayer("SEA")
            /\ Cardinality(tones') = 1
      /\ IsCall("setNatureVolume")
         => /\ bus'["nature"] = Ramp(Val(bus["nature"]), 1200, RAMP_TIME)
            /\ nodes' = nodes
      /\ IsCall("updateNatures")
         => /\ natureNodes'["SEA"] = natureNodes["SEA"]
            /\ nodes'[natureNodes["SEA"]] = nodes[natureNodes["SEA"]]
            /\ natureNodes'["WIND"] \notin {0, natureNodes["SEA"]}
            /\ nodes'[natureNodes'["WIND"]] = FreshLayer("WIND")
      /\ (calls' \in 1 .. 3 \/ (calls' = 4 /\ ~MasterSilent'))
         => /\ Cardinality(tones') = 1
            /\ Running("SEA")'
            /\ nodes'[natureNodes'["SEA"]].gain.tgt = Unity
            /\ (calls' >= 3 => Running("WIND")')
            /\ (calls' >= 2 => bus'["nature"].tgt = 1200)
      /\ (calls' = 4 /\ timers' = << >>)
         => /\ tones' = {}
            /\ \A i \in NodeIds : nodes'[i] = FreeNode
            /\ \A k \in Kinds : natureNodes'[k] = 0
    ]_vars

(* the whole scenario has run and released everything *)
C5_Witness ==
  /\ calls = 4
  /\ timers = << >>
  /\ tones = {}
  /\ bus["nature"] = Const(1200)

----------------------------------------------------------------------------
(* One session whose master volume is set repeatedly *)

Volumes == {0, 2000, 6000, 10000}

NextMaster ==
  \/ calls = 0 /\ Start({"SEA"}, "NONE", 5, 6000, << >>)
  \/ /\ calls > 0
     /\ calls < MaxCalls
     /\ \E v \in Volumes : SetMasterVolume(v)
  \/ Tick

SpecMaster == Init /\ [][NextMaster]_vars

Dist(r) == IF Val(r) >= r.tgt THEN Val(r) - r.tgt ELSE r.tgt - Val(r)
MasterTarget(v) == Max(EPS, Min(v, MASTER_CAP))

(* C6: setMasterVolume(v2) replaces whatever ramp is pending by one ramp   *)
(* from the current value to max(0.0001, min(v2, 0.95)); from then on the  *)
(* gain only moves toward that value and ends on it.                       *)
C6_LastWriteWins ==
  [][ /\ IsCall("setMasterVolume")
         => master' = Ramp(Val(master), MasterTarget(last'.arg), RAMP_TIME)
      /\ (last.op = "setMasterVolume" /\ calls' = calls)
         => /\ master'.tgt = MasterTarget(last.arg)
            /\ Dist(master') <= Dist(master)
            /\ (master.rem > 0 => master'.rem < master.rem)
            /\ (master'.rem = 0 => Val(master') = MasterTarget(last.arg))
    ]_vars

(* a second setMasterVolume arrived while the ramp of the first was running *)
(* and the gain has since settled on the second value                       *)
C6_Witness ==
  /\ calls = 3
  /\ last = [op |-> "setMasterVolume", arg |-> 2000]
  /\ master = Const(2000)

----------------------------------------------------------------------------
(* One session whose noise colour is changed to another colour while it    *)
(* plays                                                                   *)

NextNoise ==
  \/ /\ calls = 0
     /\ \E c \in {"PINK", "NONE"} : Start({"SEA"}, c, 5, 6000, << >>)
  \/ /\ calls > 0
     /\ calls < MaxCalls
     /\ \E c \in {"PINK", "BROWN", "WHITE"} : UpdateNoise(c)
  \/ FireNoiseStop
  \/ Tick

SpecNoise == Init /\ [][NextNoise]_vars

NoiseStopDue(g) == /\ DueTimer # 0
                   /\ timers[DueTimer].type = "noiseStop"
                   /\ timers[DueTimer].id = g

(* C7: updateNoise(c), c not NONE, with generator g active: in that call g *)
(* starts a 100 ms ramp to silence and keeps running, a stop timer of      *)
(* 200 ms is set for g, and a new generator is started at gain 0 and       *)
(* ramped to unity; a generator stops only when its stop timer fires, its  *)
(* ramp over and its gain at silence; every running generator that is no   *)
(* longer the current one has a stop timer pending.                        *)
C7_NoiseCrossfade ==
  [][ /\ ( /\ IsCall("updateNoise")
            /\ last'.arg # "NONE"
            /\ colorNoiseNode # 0
            /\ noiseGens[colorNoiseNode].running
            /\ noiseGens[colorNoiseNode].gain.tgt = Unity )
         => /\ colorNoiseNode' \notin {0, colorNoiseNode}
            /\ colorNoiseGain' = colorNoiseNode'
            /\ noiseGens'[colorNoiseNode'] =
                 [running |-> TRUE, color |-> last'.arg, gain |-> Ramp(0, Unity, RAMP_TIME)]
            /\ noiseGens'[colorNoiseNode] =
                 [noiseGens[colorNoiseNode] EXCEPT
                    !.gain = Ramp(Val(noiseGens[colorNoiseNode].gain), EPS, RAMP_TIME)]
            /\ timers'[Len(timers')] = Timer("noiseStop", colorNoiseNode, "", NOISE_STOP_DELAY)
      /\ \A g \in NoiseIds :
           (noiseGens[g].running /\ ~noiseGens'[g].running)
             => /\ NoiseStopDue(g)
                /\ noiseGens[g].gain.rem = 0
                /\ Val(noiseGens[g].gain) = EPS
      /\ \A g \in NoiseIds :
           (noiseGens'[g].running /\ g # colorNoiseNode')
             => \E i \in 1 .. Len(timers') :
                  timers'[i].type = "noiseStop" /\ timers'[i].id = g
    ]_vars

(* a replaced generator has been stopped by its timer while its successor runs *)
C7_Witness ==
  /\ last.op = "updateNoise"
  /\ colorNoiseNode # 0
  /\ noiseGens[colorNoiseNode].running
  /\ noiseGens[colorNoiseNode].gain = Const(Unity)
  /\ \E g \in NoiseIds : g # colorNoiseNode /\ noiseGens[g] # FreeGen
  /\ calls = 3

(* C8: a removal by updateNatures starts a 100 ms ramp to 0 on the layer's *)
(* gain and stops or unregisters nothing in that call; a layer's sources   *)
(* stop, and its natureNodes entry goes, only when its own release timer   *)
(* fires, and then its ramp to 0 has brought the gain to 0.                *)
C8_ReleaseAfterFade ==
  [][ /\ IsCall("updateNatures")
         => \A k \in Kinds :
              (natureNodes[k] # 0 /\ k \notin last'.arg)
                => /\ natureNodes'[k] = natureNodes[k]
                   /\ nodes'[natureNodes[k]] =
                        [nodes[natureNodes[k]] EXCEPT
                           !.gain = Ramp(Val(nodes[natureNodes[k]].gain), 0, RAMP_TIME)]
      /\ \A i \in NodeIds :
           ( \/ Sounding(nodes[i]) /\ ~Sounding(nodes'[i])
             \/ \E k \in Kinds : natureNodes[k] = i /\ natureNodes'[k] = 0 )
             => /\ DueTimer # 0
                /\ timers[DueTimer].type = "release"
                /\ timers[DueTimer].id = i
                /\ nodes[i].gain.tgt = 0
                /\ Val(nodes[i].gain) = 0
    ]_vars


----------------------------------------------------------------------------
(* One session with the birds layer, switched off and on while it plays *)

(* the draw of the session's first scheduler run: the longest burst *)
FullBurst == { <<c>> : c \in { b \in BurstChoices : b.count = 4 } }

(* a fade, a one-shot timer or a removed layer of an earlier call is still *)
(* in progress                                                              *)
Settling ==
  \/ \E i \in NodeIds : nodes[i].kind # "free" /\ nodes[i].gain.rem > 0
  \/ \E i \in NodeIds : nodes[i].kind = "BIRDS" /\ nodes[i].gain.tgt = 0
  \/ ReleasePending
  \/ CleanupPending

(* the host's calls follow each other while the engine is still settling;  *)
(* the lookahead interval and the clock run on after the last call         *)
NextBirds ==
  \/ /\ calls = 0
     /\ \E chs \in FullBurst : Start({"BIRDS"}, "NONE", 5, 6000, chs)
  \/ /\ calls > 0
     /\ calls < MaxCalls
     /\ Settling
     /\ \/ UpdateNatures({}, << >>)
        \/ \E chs \in Draws : UpdateNatures({"BIRDS"}, chs)
        \/ Stop
  \/ FireCleanup
  \/ FireRelease
  \/ \E chs \in Draws : FireLookahead(chs)
  \/ Tick

SpecBirds == Init /\ [][NextBirds]_vars

LookaheadArmed(ts, i) == \E j \in 1 .. Len(ts) : ts[j].type = "lookahead" /\ ts[j].id = i

(* C10: the call that begins the removal of a birds layer clears its       *)
(* lookahead interval, and once the removal has begun the interval stays   *)
(* cleared and no chirp oscillator is created for that layer.              *)
C10_NoChirpAfterRemoval ==
  [][ \A i \in NodeIds :
        (nodes'[i].kind = "BIRDS" /\ nodes'[i].gain.tgt = 0)
          => /\ ~LookaheadArmed(timers', i)
             /\ nodes[i].kind = "BIRDS"
             /\ nodes'[i].chirps \subseteq (nodes[i].chirps \cup AdvanceChirps(nodes[i].chirps))
    ]_vars

(* a removed birds layer still has chirps to play while its successor's    *)
(* scheduler is armed                                                      *)
C10_Witness ==
  \E i, j \in NodeIds :
    /\ i # j
    /\ nodes[i].kind = "BIRDS"
    /\ nodes[i].gain.tgt = 0
    /\ nodes[i].chirps # {}
    /\ nodes[j].kind = "BIRDS"
    /\ LookaheadArmed(timers, j)

----------------------------------------------------------------------------
(* One session with the birds layer whose lookahead callbacks are delayed  *)
(* by the host for up to MaxLag, and which is then switched off            *)

(* a throttled host delivers overdue timer callbacks on a coarse grid *)
OverdueStep == LOOKAHEAD_INTERVAL \div 2

NextStarved ==
  \/ /\ calls = 0
     /\ \E chs \in Draws : Start({"BIRDS"}, "NONE", 5, 6000, chs)
  \/ /\ calls = 1
     /\ UpdateNatures({}, << >>)
  \/ /\ DueTimer # 0
     /\ timers[DueTimer].rem % OverdueStep = 0
     /\ \E chs \in DrawSeqs : FireLookahead(chs)
  \/ FireRelease
  \/ Tick
  \/ Starve

SpecStarved == Init /\ [][NextStarved]_vars

(* the step is a run of node i's scheduler that scheduled something: only  *)
(* the scheduler moves nextBirdTime forward                                *)
SchedulerRan(i) == nodes'[i].kind = "BIRDS" /\ nodes'[i].nextBird > nodes[i].nextBird

NewChirps(i) == nodes'[i].chirps \ nodes[i].chirps

(* C11: a scheduler run, however late, schedules no chirp burst whose      *)
(* start time is earlier than the current audio time.                      *)
C11_TopUpNoCatchUp ==
  [][ \A i \in NodeIds :
        SchedulerRan(i) => \A c \in NewChirps(i) : c.start >= 0
    ]_vars

(* the step delivers the lookahead callback of node i *)
LookaheadFired(i) ==
  /\ DueTimer # 0
  /\ timers[DueTimer].type = "lookahead"
  /\ timers[DueTimer].id = i
  /\ LookaheadArmed(timers', i)
  /\ \E j \in 1 .. Len(timers') : timers'[j].id = i /\ timers'[j].rem = LOOKAHEAD_INTERVAL

(* time since the scheduler of node i last ran (or was due to run) *)
SinceLastRun(ts, i) ==
  LET j == CHOOSE k \in 1 .. Len(ts) : ts[k].type = "lookahead" /\ ts[k].id = i
  IN LOOKAHEAD_INTERVAL - ts[j].rem

(* the step lets the audio clock advance under node i's armed scheduler *)
ClockAdvanced(i) ==
  /\ LookaheadArmed(timers, i)
  /\ LookaheadArmed(timers', i)
  /\ SinceLastRun(timers', i) = SinceLastRun(timers, i) + Quantum

(* C12: while the birds layer plays, every burst starting within 5 s of    *)
(* the last scheduler run is already scheduled (the first unscheduled      *)
(* burst lies at or beyond that horizon); while a tick is delayed the      *)
(* scheduled chirps keep their times on the audio clock and are dropped    *)
(* only after they have played; a late run keeps every scheduled chirp and *)
(* creates none that starts within 5 s of the previous run.                *)
C12_HorizonAlreadyScheduled ==
  [][ \A i \in NodeIds :
        /\ (LookaheadArmed(timers, i) /\ natureNodes["BIRDS"] = i)
             => nodes[i].nextBird >= scheduleWindow - SinceLastRun(timers, i)
        /\ ClockAdvanced(i)
             => /\ nodes'[i].chirps = AdvanceChirps(nodes[i].chirps)
                /\ nodes'[i].nextBird = nodes[i].nextBird - Quantum
        /\ LookaheadFired(i)
             => /\ nodes[i].chirps \subseteq nodes'[i].chirps
                /\ nodes'[i].nextBird >= scheduleWindow
                /\ \A c \in NewChirps(i) :
                     c.start >= scheduleWindow - SinceLastRun(timers, i)
    ]_vars

(* a whole tick was missed and a burst scheduled before the delay is playing *)
C12_Witness ==
  \E i \in NodeIds :
    /\ LookaheadArmed(timers, i)
    /\ SinceLastRun(timers, i) >= 2 * LOOKAHEAD_INTERVAL
    /\ \E c \in nodes[i].chirps : c.start <= 0 /\ c.stop > 0

(* the step runs the interval callback of node i: its timer is due and is  *)
(* not merely left waiting while the clock goes on                         *)
CallbackRan(i) ==
  /\ DueTimer # 0
  /\ timers[DueTimer].type = "lookahead"
  /\ timers[DueTimer].id = i
  /\ calls' = calls
  /\ ~ClockAdvanced(i)

(* node i's state changed as by a scheduler run of n loop iterations *)
RanIterations(i, n) ==
  LET delta == nodes'[i].nextBird - nodes[i].nextBird
      made  == Cardinality(NewChirps(i))
  IN /\ (n = 0) <=> (nodes[i].nextBird >= scheduleWindow)
     /\ n * MIN_GAP <= delta
     /\ delta < Max(1, n * MAX_GAP)
     /\ n * MIN_COUNT <= made
     /\ made <= n * MAX_COUNT
     /\ nodes'[i].nextBird >= scheduleWindow
     /\ nodes'[i].nextBird < scheduleWindow + MAX_GAP + Max(0, nodes[i].nextBird - scheduleWindow)

(* C13: a scheduler run of the registered birds layer ends after a bounded *)
(* number of loop iterations, each of which schedules one burst of 2 to 4  *)
(* chirps and advances nextBirdTime by a gap in [6 s, 14 s), and leaves    *)
(* nextBirdTime at or beyond currentTime + 5 s; the scheduler runs once in *)
(* the call that starts the layer, scheduling the burst 1 s ahead, and the *)
(* interval is armed with a 2 s period after the start and after each run. *)
C13_SchedulerRun ==
  [][ /\ \A i \in NodeIds :
           (CallbackRan(i) /\ natureNodes["BIRDS"] = i)
             => /\ \E n \in 0 .. MaxBurstsPerRun : RanIterations(i, n)
                /\ LookaheadArmed(timers', i)
                /\ SinceLastRun(timers', i) = 0
      /\ IsCall("start")
           => \A i \in NodeIds :
                nodes'[i].kind = "BIRDS"
                  => /\ LookaheadArmed(timers', i)
                     /\ SinceLastRun(timers', i) = 0
                     /\ Cardinality(nodes'[i].chirps) \in MIN_COUNT .. MAX_COUNT
                     /\ \E c \in nodes'[i].chirps : c.start = FIRST_BIRD_DELAY
                     /\ \A c \in nodes'[i].chirps : c.start >= FIRST_BIRD_DELAY
                     /\ nodes'[i].nextBird >= FIRST_BIRD_DELAY + MIN_GAP
                     /\ nodes'[i].nextBird < FIRST_BIRD_DELAY + MAX_GAP
    ]_vars

(* one late run has just scheduled two bursts *)
C13_Witness ==
  \E i \in NodeIds :
    /\ LookaheadArmed(timers, i)
    /\ SinceLastRun(timers, i) = 0
    /\ \E c, d \in nodes[i].chirps : c.stop <= 0 /\ d.start >= c.start + MIN_GAP

(* the two signal paths of the birds layer, source to layer output *)
BreezePath == <<"breezeSource", "breezeFilter", "internalGain">>
ChirpPath == <<"osc", "g", "internalGain">>
Range(f) == { f[x] : x \in DOMAIN f }

(* C14: the breeze source of a birds layer, once started, keeps running    *)
(* through every step except the firing of a release timer of that layer;  *)
(* a scheduler run, on time or late, leaves the breeze and the layer's     *)
(* gain automation as they are; it is never restarted; the breeze path and *)
(* the chirp path have only the internal gain node in common.              *)
C14_BreezeUninterrupted ==
  [][ /\ \A i \in NodeIds :
           /\ (nodes[i].kind = "BIRDS" /\ nodes[i].breeze /\ ~nodes'[i].breeze)
                => /\ DueTimer # 0
                   /\ timers[DueTimer].type = "release"
                   /\ timers[DueTimer].id = i
           /\ (nodes[i].kind = "BIRDS" /\ ~nodes[i].breeze /\ nodes'[i].kind = "BIRDS")
                => ~nodes'[i].breeze
           /\ CallbackRan(i)
                => /\ nodes'[i].breeze = nodes[i].breeze
                   /\ nodes'[i].gain = nodes[i].gain
      /\ IsCall("start")
           => \A i \in NodeIds : nodes'[i].kind = "BIRDS" => nodes'[i].breeze
      /\ Range(BreezePath) \cap Range(ChirpPath) = {"internalGain"}
    ]_vars

(* the layer's release timer has stopped the breeze after scheduler runs,  *)
(* while chirps scheduled earlier are still to play                        *)
C14_Witness ==
  \E i \in NodeIds :
    /\ nodes[i].kind = "BIRDS"
    /\ ~nodes[i].breeze
    /\ nodes[i].chirps # {}
    /\ calls = 2

----------------------------------------------------------------------------
(* updateNatures as a relation between the engine before and after a call *)

(* the generators of the nature layers that are running in engine e *)
RunningGenerators(e) ==
  { <<i, g>> \in NodeIds \X {"source", "lfo", "breeze"} :
      \/ g = "source" /\ e.nodes[i].source
      \/ g = "lfo" /\ e.nodes[i].lfo
      \/ g = "breeze" /\ e.nodes[i].breeze }

TimersOf(ts, i) == { j \in 1 .. Len(ts) : ts[j].id = i /\ ts[j].type \in {"release", "lookahead"} }

(* C15: an updateNatures(S) call leaves a kind that is in S and registered *)
(* as it is (same node, same gain automation, no timer added for it) and   *)
(* creates nothing and registers nothing for a kind that is neither in S   *)
(* nor registered; a second updateNatures(S) right after the first starts  *)
(* and stops nothing and registers nothing.                                *)
C15_UpdateNaturesIdempotent ==
  [][ IsCall("updateNatures")
        => /\ \A k \in Kinds :
                (k \in last'.arg /\ natureNodes[k] # 0)
                  => /\ natureNodes'[k] = natureNodes[k]
                     /\ nodes'[natureNodes[k]] = nodes[natureNodes[k]]
                     /\ Cardinality(TimersOf(timers', natureNodes[k])) =
                          Cardinality(TimersOf(timers, natureNodes[k]))
           /\ \A k \in Kinds :
                (k \notin last'.arg /\ natureNodes[k] = 0)
                  => /\ natureNodes'[k] = 0
                     /\ \A i \in NodeIds : nodes'[i].kind = k => nodes'[i] = nodes[i]
           /\ LET twice == updateNatures(Cur', last'.arg, << >>)
              IN /\ twice.ok
                 /\ RunningGenerators(twice) = RunningGenerators(Cur')
                 /\ twice.natureNodes = natureNodes'
    ]_vars

(* a call kept the sea layer, which was still ramping in, while the wind   *)
(* layer is being released                                                  *)
C15_Witness ==
  /\ last.op = "updateNatures"
  /\ last.arg = {"SEA"}
  /\ Running("SEA")
  /\ nodes[natureNodes["SEA"]].gain.tgt = Unity
  /\ nodes[natureNodes["SEA"]].gain.rem > 0
  /\ natureNodes["WIND"] # 0
  /\ nodes[natureNodes["WIND"]].gain.tgt = 0

----------------------------------------------------------------------------
(* The engine under every kind of call, the calls coming back to back or   *)
(* once the master and bus gains have finished moving                      *)

AtRest(r) == r.rem = 0 \/ r.rem = r.dur

NextBuses ==
  \/ /\ calls < MaxCalls
     /\ AtRest(master)
     /\ \A b \in Buses : AtRest(bus[b])
     /\ \/ InitEngine
        \/ Start({"SEA"}, "PINK", 5, 6000, << >>)
        \/ Stop
        \/ SetMasterVolume(2000)
        \/ SetBinauralVolume(5000)
        \/ SetNatureVolume(2000)
        \/ SetNoiseVolume(3000)
        \/ UpdateNatures({"WIND"}, << >>)
        \/ UpdateNoise("BROWN")
        \/ UpdateFrequency(7)
  \/ Timers

SpecBuses == Init /\ [][NextBuses]_vars

(* the gain's value does not jump in the step: it stays, or moves along    *)
(* the ramp it was on                                                      *)
Continuous(r, rr) == Val(rr) \in {Val(r), Val(Advance(r))}

(* C16: once the context exists it stays; the three buses and the master   *)
(* gain are the nodes init() created and wired: no step (init again,       *)
(* start, stop, cleanup, a setter, an update) resets a bus to the unity of *)
(* a new gain node or the master to the 0 of a new one, their values only  *)
(* move along their ramps; every bus feeds the master gain and the master  *)
(* gain the limiter.                                                       *)
C16_BusesCreatedOnce ==
  [][ /\ ctx => ctx'
      /\ DOMAIN bus' = Buses
      /\ ctx => /\ \A b \in Buses : Continuous(bus[b], bus'[b])
                /\ Continuous(master, master')
      /\ \A b \in Buses : <<b, "master">> \in InitWiring
      /\ ~(\E b \in Buses, n \in {"compressor", "destination"} : <<b, n>> \in InitWiring)
      /\ <<"master", "compressor">> \in InitWiring
    ]_vars

(* init() ran again after a setter had moved the nature bus *)
C16_Witness ==
  /\ last.op = "init"
  /\ calls >= 3
  /\ bus["nature"] = Const(1200)

(* C17: while a tone pair is referenced the left oscillator is at the base *)
(* 200 Hz and no step changes it; start() sets the right oscillator to     *)
(* 200 + its offset, updateFrequency(hz) retargets it to 200 + hz, and no  *)
(* other step changes the right oscillator's frequency target.             *)
C17_BeatOffset ==
  [][ /\ osc.id # 0 => osc.left = binauralBaseFreq
      /\ IsCall("start")
           => /\ osc'.id # 0
              /\ osc'.left = binauralBaseFreq
              /\ osc'.right = binauralBaseFreq + last'.arg.freq
      /\ (IsCall("updateFrequency") /\ osc.id # 0)
           => /\ osc'.id = osc.id
              /\ osc'.left = binauralBaseFreq
              /\ osc'.right = binauralBaseFreq + last'.arg
      /\ (osc.id # 0 /\ osc'.id # 0 /\ ~IsCall("start") /\ ~IsCall("updateFrequency"))
           => /\ osc'.left = osc.left
              /\ osc'.right = osc.right
    ]_vars

(* the offset of a playing pair was changed from the 5 Hz of start() *)
C17_Witness ==
  /\ osc.id \in tones
  /\ osc.left = binauralBaseFreq
  /\ osc.right = binauralBaseFreq + 7
  /\ last.op # "updateFrequency"

(* C18: the tone pair of every session goes through a two-input channel   *)
(* merger, the left oscillator connected to input 0 only and the right     *)
(* oscillator to input 1 only, and no step rewires a pair.                 *)
C18_ChannelSeparation ==
  [][ /\ osc.id # 0
           => /\ osc.mergerInputs = 2
              /\ osc.leftInput = {0}
              /\ osc.rightInput = {1}
      /\ (osc.id # 0 /\ osc'.id = osc.id)
           => /\ osc'.leftInput = osc.leftInput
              /\ osc'.rightInput = osc.rightInput
      /\ IsCall("start") => (osc'.id # 0 /\ osc'.leftInput \cap osc'.rightInput = {})
    ]_vars

(* a second session has been started after the first was stopped *)
C18_Witness ==
  /\ last.op = "start"
  /\ calls >= 3
  /\ osc.id \in tones
  /\ osc.leftInput = {0}
  /\ osc.rightInput = {1}
  /\ master.tgt = 6000

----------------------------------------------------------------------------
(* The App around the engine: play button, start() failures, countdown *)

(* the user presses the button while the master gain is at rest: before a  *)
(* session, in the first second of one or in its last second; an await of  *)
(* start() settles within one quantum                                      *)
UserActs ==
  /\ AtRest(master)
  /\ \/ ~app.endSet
     \/ /\ app.endIn % (COUNTDOWN_PERIOD \div 2) = 0
        /\ \/ app.endIn > (app.duration * SECONDS_PER_MINUTE - 1) * MS_PER_SECOND
           \/ app.endIn <= MS_PER_SECOND

NextApp ==
  \/ app.duration = DEFAULT_DURATION /\ UpdateDuration(MIN_DURATION)
  \/ /\ app.duration = MIN_DURATION
     /\ calls < MaxCalls
     /\ UserActs
     /\ (TogglePlay \/ TogglePlayNoDevice)
  \/ StartResolved
  \/ StartRejected
  \/ FireCountdown
  \/ FireCleanup
  \/ FireRelease
  \/ app.pending = 0 /\ Tick

SpecApp == Init /\ [][NextApp]_vars

GainTargets(e) == [master |-> e.master.tgt,
                   bus |-> [b \in Buses |-> e.bus[b].tgt],
                   layers |-> [i \in NodeIds |-> e.nodes[i].gain.tgt],
                   noise |-> [g \in NoiseIds |-> e.noiseGens[g].gain.tgt]]

Generators(e) == [tones |-> e.tones, osc |-> e.osc.id,
                  layers |-> RunningGenerators(e),
                  chirps |-> [i \in NodeIds |-> e.nodes[i].chirps],
                  noise |-> { g \in NoiseIds : e.noiseGens[g].running }]

(* a start() rejected in this step *)
Rejected == app'.failures = app.failures + 1

(* C19: a step in which start() rejects (the audio device could not be     *)
(* created or resumed) settles one attempt, creates and stops no           *)
(* generator, changes no gain target, leaves isPlaying as it was and       *)
(* creates no countdown interval; a later start() can succeed              *)
C19_RejectedStartLeavesNoTrace ==
  [][Rejected =>
       /\ last'.op = "startRejected"
       /\ app'.pending \in {app.pending, app.pending - 1}
       /\ Generators(Cur') = Generators(Cur)
       /\ GainTargets(Cur') = GainTargets(Cur)
       /\ natureNodes' = natureNodes
       /\ app'.isPlaying = app.isPlaying
       /\ timers' = timers
       /\ (~app.isPlaying /\ Countdowns(timers) = {}
             => ~app'.isPlaying /\ Countdowns(timers') = {})]_vars

(* a start() rejected, and afterwards a start() resolved into a session *)
C19_Witness ==
  /\ app.failures = 1
  /\ calls = 2
  /\ last.op = "start"
  /\ app.isPlaying
  /\ app.pending = 0
  /\ osc.id # 0
  /\ Countdowns(timers) = {app.timerRef}

(* the countdown callback runs in this step and reads a remaining time of 0 *)
CountdownZero ==
  /\ DueTimer # 0
  /\ timers[DueTimer].type = "countdown"
  /\ app.endSet
  /\ app.endIn \div MS_PER_SECOND <= 0
  /\ last' = last
  /\ app' # app

(* audioService.stop() was called in this step *)
StopInvoked ==
  /\ master' = rampToZero(master, STOP_RAMP)
  /\ \E i \in 1 .. Len(timers') : timers'[i] = Timer("cleanup", 0, "", CLEANUP_DELAY)

(* C20: when the session countdown reaches 0, stop() is invoked, isPlaying *)
(* becomes false, timeLeft is exactly 0 and the countdown interval is      *)
(* cleared; timeLeft is never negative and never increases while a session *)
(* is playing                                                              *)
C20_CountdownEnd ==
  [][/\ CountdownZero => /\ StopInvoked
                         /\ ~app'.isPlaying
                         /\ app'.timeLeft = 0
                         /\ Countdowns(timers') = {}
     /\ app'.timeLeft >= 0
     /\ (app.isPlaying /\ app'.isPlaying => app'.timeLeft <= app.timeLeft)]_vars

----------------------------------------------------------------------------
(* Noise buffers: generation, seam crossfade, the loop boundary *)

Whites == {0 - Amp, Amp}
NoiseTypes == {"white", "pink", "brown"}
SampleRates == {MaxRate - 2, MaxRate}

Segments == {"head", "middle", "tail"}

(* the values of Math.random() * 2 - 1 for sample i: one value for each of *)
(* the head the crossfade writes, the tail it reads and the samples in     *)
(* between; the last two samples are drawn freely                          *)
Draws_i ==
  IF buf.i >= bufferSize(buf.rate) - 2 THEN Whites
  ELSE IF buf.i < fade(buf.rate) THEN {buf.fill["head"]}
  ELSE IF buf.i >= bufferSize(buf.rate) - fade(buf.rate) THEN {buf.fill["tail"]}
  ELSE {buf.fill["middle"]}

NextBuffer ==
  \/ \E t \in NoiseTypes, r \in SampleRates, w \in [Segments -> Whites] :
        CreateNoiseBuffer(t, r, w)
  \/ \E w \in Draws_i : ShapeStep(w)
  \/ FadeStep

SpecBuffer == Init /\ [][NextBuffer]_vars

(* the step from the last sample to the first when the buffer loops *)
WrapStep(o) == Abs(o[1] - o[Len(o)])

(* the largest step between two adjacent samples inside the buffer *)
LargestStep(o) == CHOOSE m \in { Abs(o[k + 1] - o[k]) : k \in 1 .. (Len(o) - 1) } :
                    \A k \in 1 .. (Len(o) - 1) : Abs(o[k + 1] - o[k]) <= m

(* C21: for every colour the level step across the wrap boundary of a      *)
(* returned buffer (last sample to first sample) is no larger than the     *)
(* largest step between two adjacent samples inside the buffer             *)
C21_SeamWithinTolerance ==
  buf.phase = "done" => WrapStep(buf.output) <= LargestStep(buf.output)

(* an iteration of the crossfade loop runs in this step *)
FadeRuns == buf.phase = "fade" /\ buf' # buf

(* C22: the crossfade starts only when the colour loop has written all N   *)
(* samples; each of its iterations changes only sample i < W, to           *)
(* out[i]*(i/W) + out[N-W+i]*(1 - i/W), reads a tail sample that no        *)
(* iteration writes, and leaves every sample with index >= W unchanged     *)
C22_CrossfadeAfterShaping ==
  [][/\ (buf.phase = "shape" /\ buf'.phase = "fade" => buf.i = bufferSize(buf.rate) - 1)
     /\ (buf.phase = "shape" => buf'.phase \in {"shape", "fade"})
     /\ (FadeRuns =>
           LET n == bufferSize(buf.rate)
               w == fade(buf.rate)
               i == buf.i
           IN /\ buf'.phase \in {"fade", "done"}
              /\ i < w
              /\ n - w + i >= w
              /\ buf'.output[i + 1] =
                   (buf.output[i + 1] * i + buf.output[n - w + i + 1] * (w - i)) \div w
              /\ \A k \in 0 .. (n - 1) : k # i => buf'.output[k + 1] = buf.output[k + 1]
              /\ \A k \in w .. (n - 1) : buf'.output[k + 1] = buf.output[k + 1])]_vars

(* the crossfade of a brown buffer at its last iteration: sample 0 already *)
(* equals the first tail sample, sample W-1 is still as generated          *)
C22_Witness ==
  /\ buf.phase = "fade"
  /\ buf.type = "brown"
  /\ buf.i = fade(buf.rate) - 1
  /\ buf.i >= 2
  /\ buf.output[1] = buf.output[bufferSize(buf.rate) - fade(buf.rate) + 1]
  /\ buf.output[1] # 0
  /\ buf.output[buf.i + 1] # buf.output[bufferSize(buf.rate)]

----------------------------------------------------------------------------
(* Timers of an earlier session that fire in a later one *)

(* the cleanup timer of a stop() fires in this step, after a later start() *)
StaleCleanupFires ==
  /\ DueTimer # 0
  /\ timers[DueTimer].type = "cleanup"
  /\ last.op = "start"
  /\ calls' = calls
  /\ Len(timers') # Len(timers) \/ timers' # timers

(* C23: a cleanup timer scheduled by an earlier stop() that fires after a  *)
(* new start() stops no tone oscillator, nature generator or noise         *)
(* generator of the new session and starts no fade-out of its layers       *)
C23_StaleCleanupHarmless ==
  [][StaleCleanupFires =>
       /\ SessionKept
       /\ osc' = osc
       /\ \A k \in Kinds : natureNodes[k] # 0 =>
             nodes'[natureNodes[k]].gain.tgt = nodes[natureNodes[k]].gain.tgt]_vars

(* a layer removed twice in a row and then selected again *)
NextRelease ==
  \/ calls = 0 /\ Start({"SEA"}, "NONE", 5, 6000, << >>)
  \/ calls \in {1, 2} /\ UpdateNatures({}, << >>)
  \/ calls = 3 /\ UpdateNatures({"SEA"}, << >>)
  \/ FireRelease
  \/ Tick

SpecRelease == Init /\ [][NextRelease]_vars

(* layer object i has a generator or a lookahead interval running *)
Active(e, i) == Sounding(e.nodes[i]) \/ HasTimer(e, "lookahead", i)

(* the release timer of layer object i unregisters another object *)
ReleasesOther(i, k) ==
  /\ DueTimer # 0
  /\ timers[DueTimer].type = "release"
  /\ timers[DueTimer].id = i
  /\ timers[DueTimer].kind = k
  /\ calls' = calls
  /\ natureNodes[k] \notin {0, i}
  /\ natureNodes'[k] = 0

(* C24: every nature generator that is running is the entry registered in  *)
(* natureNodes for its kind or has a pending release timer, and a release  *)
(* timer never deletes an entry other than the one it was created for      *)
C24_NoUntrackedGenerator ==
  [][/\ \A i \in NodeIds :
          Active(Cur', i) => natureNodes'[nodes'[i].kind] = i \/ HasTimer(Cur', "release", i)
     /\ \A i \in NodeIds, k \in Kinds : ~ReleasesOther(i, k)]_vars

----------------------------------------------------------------------------
(* stop() and what its timers leave behind *)

LayersAtRest == \A i \in NodeIds : AtRest(nodes[i].gain)

(* the session of NextRelease with its calls made while no layer gain is   *)
(* moving, stopped at the end and then left alone; the host runs due       *)
(* timers and the clock goes on                                            *)
NextFinalStop ==
  \/ calls = 0 /\ Start({"SEA"}, "NONE", 5, 6000, << >>)
  \/ calls \in {1, 2} /\ LayersAtRest /\ UpdateNatures({}, << >>)
  \/ calls = 3 /\ LayersAtRest /\ UpdateNatures({"SEA"}, << >>)
  \/ calls = 4 /\ LayersAtRest /\ AtRest(master) /\ Stop
  \/ FireCleanup
  \/ FireRelease
  \/ Tick

SpecFinalStop == Init /\ [][NextFinalStop]_vars /\ WF_vars(FireCleanup \/ FireRelease \/ Tick)

(* nothing of a session is left: no tone pair, no noise source, no nature  *)
(* generator, no lookahead interval, no entry in natureNodes               *)
AllReleased ==
  /\ tones = {}
  /\ osc = NoOsc
  /\ colorNoiseNode = 0
  /\ \A g \in NoiseIds : ~noiseGens[g].running
  /\ \A i \in NodeIds : ~Active(Cur, i)
  /\ \A k \in Kinds : natureNodes[k] = 0

(* C25: after stop(), with no further engine call, eventually both tone    *)
(* oscillators and the noise source are stopped and their references null, *)
(* every nature source, LFO and breeze source is stopped, every lookahead  *)
(* interval is cleared and natureNodes is empty                            *)
C25_StopReleasesAll == (last.op = "stop") ~> AllReleased

----------------------------------------------------------------------------
(* The master gain under start() and setMasterVolume() with any volume *)

NextVolume ==
  \/ calls = 0 /\ \E v \in Volumes : Start({"SEA"}, "NONE", 5, v, << >>)
  \/ /\ calls > 0
     /\ calls < MaxCalls
     /\ AtRest(master)
     /\ \/ \E v \in Volumes : SetMasterVolume(v)
        \/ Stop
  \/ FireCleanup
  \/ FireRelease
  \/ Tick

SpecVolume == Init /\ [][NextVolume]_vars

(* C26: in every reachable state the master gain's ramp target lies in     *)
(* [0, 0.95], whatever volume start() or setMasterVolume() was called with *)
C26_MasterTargetCapped == master.tgt >= 0 /\ master.tgt <= MASTER_CAP

----------------------------------------------------------------------------
(* The countdown interval of the App *)

(* a countdown callback runs in this step *)
CountdownRuns ==
  /\ DueTimer # 0
  /\ timers[DueTimer].type = "countdown"
  /\ last' = last
  /\ calls' = calls

(* C27: at most one countdown interval is active at any time and none      *)
(* while isPlaying is false, also when togglePlay is invoked again while   *)
(* an earlier invocation awaits start(); no countdown callback changes     *)
(* timeLeft after the user has stopped the session                         *)
C27_SingleCountdown ==
  [][/\ Cardinality(Countdowns(timers')) <= 1
     /\ (~app'.isPlaying => Countdowns(timers') = {})
     /\ (CountdownRuns /\ ~app.isPlaying => app'.timeLeft = app.timeLeft)]_vars

----------------------------------------------------------------------------
(* updateNoise with the colour that is already playing *)

(* colour c is the active noise colour: its generator runs at full gain *)
ActiveColor(c) ==
  /\ colorNoiseNode # 0
  /\ noiseGens[colorNoiseNode].running
  /\ noiseGens[colorNoiseNode].color = c
  /\ colorNoiseGain = colorNoiseNode
  /\ noiseGens[colorNoiseNode].gain.tgt = Unity

(* C28: updateNoise(c) called while colour c is already the active noise   *)
(* colour creates no noise generator and does not fade the active one      *)
C28_SameColourNoOp ==
  [][IsCall("updateNoise") /\ ActiveColor(last'.arg) =>
       /\ colorNoiseNode' = colorNoiseNode
       /\ colorNoiseGain' = colorNoiseGain
       /\ { g \in NoiseIds : noiseGens'[g].running } = { g \in NoiseIds : noiseGens[g].running }
       /\ noiseGens'[colorNoiseNode].gain.tgt = Unity]_vars

----------------------------------------------------------------------------
(* The soundscape selection of Controls *)

NatureSounds == Kinds \cup {"RAIN", "THUNDER", "FOREST", "NIGHT"}

(* the soundscape buttons and the duration slider, while no session plays *)
NextSelection ==
  \/ \E s \in NatureSounds \cup {"NONE"} : ToggleNature(s)
  \/ \E d \in {MIN_DURATION, DEFAULT_DURATION} : UpdateDuration(d)

SpecSelection == Init /\ [][NextSelection]_vars

(* toggleNature(s) was called in this step *)
Toggled(s) == last' = [op |-> "toggleNature", arg |-> s] /\ (last' # last \/ app' # app)

(* C29: after any sequence of toggleNature calls from [SEA] the selection  *)
(* holds at most 2 kinds, no duplicate and never NONE; toggling a selected *)
(* kind removes it, toggling a third kind evicts the oldest selected kind  *)
(* and toggling NONE empties the selection                                 *)
C29_SelectionAtMostTwo ==
  [][LET old == app.selectedNatures
         new == app'.selectedNatures
     IN /\ Len(new) <= 2
        /\ \A i, j \in DOMAIN new : new[i] = new[j] => i = j
        /\ \A i \in DOMAIN new : new[i] # "NONE"
        /\ (last'.op # "toggleNature" => new = old)
        /\ \A s \in NatureSounds \cup {"NONE"} : Toggled(s) =>
              IF s = "NONE" THEN new = << >>
              ELSE IF \E i \in DOMAIN old : old[i] = s
              THEN /\ \A i \in DOMAIN new : new[i] # s
                   /\ Len(new) = Len(old) - 1
                   /\ \A i \in DOMAIN old : old[i] # s => \E j \in DOMAIN new : new[j] = old[i]
              ELSE IF Len(old) < 2 THEN new = old \o <<s>>
              ELSE new = <<old[2], s>>]_vars

(* SEA and WIND were selected and a third kind has evicted SEA *)
C29_Witness ==
  /\ last = [op |-> "toggleNature", arg |-> "BIRDS"]
  /\ app.selectedNatures = <<"WIND", "BIRDS">>

----------------------------------------------------------------------------
(* The beat frequency under updateFrequency *)

(* distance of the right oscillator's frequency from its target *)
FreqDist(o) == Abs(o.rightValue - o.right * FREQ_SCALE)

(* updateFrequency is called before a session, with the frequency at rest  *)
(* or early in an approach that is under way, the master gain at rest      *)
FrequencyCallTime ==
  /\ AtRest(master)
  /\ \/ FreqDist(osc) = 0
     \/ FreqDist(osc) >= FREQ_SCALE /\ 4 * FreqDist(osc) < 5 * FREQ_SCALE

NextFrequency ==
  \/ calls <= 1 /\ osc.id = 0 /\ Start({"SEA"}, "NONE", 5, 6000, << >>)
  \/ /\ calls < MaxCalls
     /\ FrequencyCallTime
     /\ \E f \in {2, 10} : UpdateFrequency(f)
  \/ Tick

SpecFrequency == Init /\ [][NextFrequency]_vars

(* C30: updateFrequency(hz) on a playing pair leaves the right frequency   *)
(* where it is and only retargets a smoothed approach (time constant       *)
(* 0.2 s) toward 200 + hz; as time passes the frequency moves toward the   *)
(* last requested value by at most the fraction Quantum / 0.2 s of its     *)
(* distance and gets strictly closer until it is there; without a tone     *)
(* pair the call does nothing                                              *)
C30_FrequencyRamps ==
  [][/\ (IsCall("updateFrequency") /\ osc.id # 0) =>
          /\ osc'.rightValue = osc.rightValue
          /\ osc'.rightMode = "target"
          /\ osc'.right = binauralBaseFreq + last'.arg
          /\ osc'.id = osc.id
          /\ osc'.left = osc.left
     /\ (IsCall("updateFrequency") /\ osc.id = 0) => Cur' = Cur
     /\ (calls' = calls /\ osc.id # 0 /\ osc'.id = osc.id) =>
          /\ osc'.right = osc.right
          /\ FreqDist(osc') <= FreqDist(osc)
          /\ (FreqDist(osc) > 0 => FreqDist(osc') < FreqDist(osc))
          /\ Abs(osc'.rightValue - osc.rightValue) * FREQ_TIME_CONSTANT
               <= FreqDist(osc) * Quantum + FREQ_TIME_CONSTANT]_vars

(* a second updateFrequency superseded the first in mid-approach: the      *)
(* frequency had risen from 205 Hz toward 210 Hz and is now falling toward *)
(* the 202 Hz requested last, without having reached 210 Hz                *)
C30_Witness ==
  /\ calls = 3
  /\ last = [op |-> "updateFrequency", arg |-> 2]
  /\ osc.id # 0
  /\ osc.rightMode = "target"
  /\ osc.right = binauralBaseFreq + 2
  /\ osc.rightValue > (binauralBaseFreq + 5) * FREQ_SCALE
  /\ osc.rightValue < (binauralBaseFreq + 8) * FREQ_SCALE

----------------------------------------------------------------------------
(* Every gain of the engine under every call that writes a gain, the calls *)
(* coming while ramps of earlier calls are under way                       *)

(* a call comes at a quarter of the start ramp, or halfway through the     *)
(* ramp of a bus, a layer or a noise generator                             *)
GainCallTime ==
  \/ master.rem % (START_RAMP \div 4) = 0
  \/ \E b \in Buses : 2 * bus[b].rem = bus[b].dur
  \/ \E i \in NodeIds : nodes[i].kind # "free" /\ 2 * nodes[i].gain.rem = nodes[i].gain.dur
  \/ \E g \in NoiseIds : noiseGens[g].running /\ 2 * noiseGens[g].gain.rem = noiseGens[g].gain.dur

NextGains ==
  \/ calls = 0 /\ Start({"SEA"}, "PINK", 5, 6000, << >>)
  \/ /\ calls > 0
     /\ calls < MaxCalls
     /\ GainCallTime
     /\ \/ \E v \in {0, Unity} : SetMasterVolume(v)
        \/ \E v \in {0, Unity} : SetBinauralVolume(v)
        \/ \E v \in {0, Unity} : SetNatureVolume(v)
        \/ \E v \in {0, Unity} : SetNoiseVolume(v)
        \/ UpdateNatures({}, << >>)
        \/ \E c \in {"NONE", "BROWN"} : UpdateNoise(c)
        \/ Stop
  \/ Timers

SpecGains == Init /\ [][NextGains]_vars

RampLengths == {RAMP_TIME, STOP_RAMP, START_RAMP}

(* the automation rr of a gain after a step is the automation r before it, *)
(* r one quantum later, or a new ramp that starts at r's current value and *)
(* ends at the floor or above, or at 0 where toZero allows it              *)
RampedOnly(r, rr, toZero) ==
  \/ rr = r
  \/ rr = Advance(r)
  \/ /\ rr.from = Val(r)
     /\ rr.dur \in RampLengths
     /\ rr.rem = rr.dur
     /\ rr.tgt >= EPS \/ (toZero /\ rr.tgt = 0)

(* fadeOutNatureNode ran for layer object i in this step *)
FadeOutBegun(i) ==
  \E j \in 1 .. Len(timers') : /\ timers'[j] = Timer("release", i, nodes[i].kind, RELEASE_DELAY)
                               /\ calls' = calls + 1 \/ (DueTimer # 0 /\ timers[DueTimer].type = "cleanup")

(* C31: no step sets the master gain, a bus gain, a layer's internal gain  *)
(* or a noise generator's gain to a new value at once: a gain changes only *)
(* along its ramp or by a new ramp that starts at its current value; a     *)
(* node that is new in a step starts at 0 with a ramp to unity; the target *)
(* of every setter is at least 0.0001; a ramp to exactly 0 is begun only   *)
(* by stop() on the master gain and by the fade-out of a nature layer      *)
C31_RampsOnly ==
  [][ctx =>
       /\ RampedOnly(master, master', IsCall("stop"))
       /\ (IsCall("stop") => master' = Ramp(Val(master), 0, STOP_RAMP))
       /\ \A b \in Buses : RampedOnly(bus[b], bus'[b], FALSE)
       /\ \A i \in NodeIds :
            /\ (nodes[i].kind # "free" /\ nodes'[i].kind # "free")
                 => RampedOnly(nodes[i].gain, nodes'[i].gain, FadeOutBegun(i))
            /\ (nodes[i].kind = "free" /\ nodes'[i].kind # "free")
                 => nodes'[i].gain = Ramp(0, Unity, RAMP_TIME)
       /\ \A g \in NoiseIds :
            /\ (noiseGens[g] # FreeGen /\ noiseGens'[g] # FreeGen)
                 => RampedOnly(noiseGens[g].gain, noiseGens'[g].gain, FALSE)
            /\ (noiseGens[g] = FreeGen /\ noiseGens'[g] # FreeGen)
                 => noiseGens'[g].gain = Ramp(0, Unity, RAMP_TIME)
       /\ (IsCall("setMasterVolume") => master'.tgt = Max(EPS, Min(last'.arg, MASTER_CAP)))
       /\ (IsCall("setBinauralVolume") => bus'["binaural"].tgt = Max(EPS, (last'.arg * 4) \div 10))
       /\ (IsCall("setNatureVolume") => bus'["nature"].tgt = Max(EPS, (last'.arg * 6) \div 10))
       /\ (IsCall("setNoiseVolume") => bus'["noise"].tgt = Max(EPS, last'.arg \div 10))
       /\ (IsCall("updateNoise") /\ colorNoiseGain # 0 /\ noiseGens[colorNoiseGain].running)
            => noiseGens'[colorNoiseGain].gain = Ramp(Val(noiseGens[colorNoiseGain].gain), EPS, RAMP_TIME)
    ]_vars

(* 50 ms into the start ramp the sea layer was removed, halfway through    *)
(* its fade-in, and setMasterVolume(0) was called: both gains ramp down    *)
(* from the values they had reached                                        *)
C31_Witness ==
  /\ last = [op |-> "setMasterVolume", arg |-> 0]
  /\ master.tgt = EPS
  /\ master.from = 300
  /\ \E i \in NodeIds : /\ nodes[i].kind = "SEA"
                        /\ nodes[i].gain.tgt = 0
                        /\ nodes[i].gain.from = Unity \div 2

----------------------------------------------------------------------------
(* The bursts a scheduler run creates *)

MAX_STEP == 500

(* the tones of one burst start within (count - 1) * (0.2 + 0.3) s of the  *)
(* burst's start, which is less than the shortest gap between two bursts   *)
BurstSpread == (MAX_COUNT - 1) * MAX_STEP

(* the start times of the bursts among the chirps cs: the chirps that no   *)
(* other chirp of cs precedes by less than the spread of a burst           *)
BurstStarts(cs) ==
  { c.start : c \in { d \in cs : \A x \in cs : ~(x.start < d.start /\ d.start - x.start < BurstSpread) } }

(* the chirps of cs that belong to the burst starting at s *)
BurstOf(cs, s) == { c \in cs : s <= c.start /\ c.start < s + BurstSpread }

(* C32: the chirps a scheduler run creates form bursts of between 2 and 6  *)
(* tones; the first burst starts at the nextBirdTime the run found, every  *)
(* tone starts at or after the start of its burst and is created with its  *)
(* stop 0.5 s after its own start; every burst starts less than 5 s after  *)
(* the time of the run that creates it; no step moves the stop of a tone   *)
(* away from 0.5 s after its start                                         *)
C32_BurstShape ==
  [][ \A i \in NodeIds :
        /\ (SchedulerRan(i) /\ LookaheadArmed(timers', i))
             => /\ NewChirps(i) # {}
                /\ \A c \in NewChirps(i) : /\ c.stop = c.start + CHIRP_LENGTH
                                           /\ c.start >= nodes[i].nextBird
                                              \/ (nodes[i].kind = "free" /\ c.start >= FIRST_BIRD_DELAY)
                /\ \A s \in BurstStarts(NewChirps(i)) :
                     /\ Cardinality(BurstOf(NewChirps(i), s)) >= MIN_COUNT
                     /\ Cardinality(BurstOf(NewChirps(i), s)) <= 6
                     /\ s < scheduleWindow
                /\ \A c \in NewChirps(i) : \E s \in BurstStarts(NewChirps(i)) : c \in BurstOf(NewChirps(i), s)
                /\ nodes[i].kind = "BIRDS" => nodes[i].nextBird \in BurstStarts(NewChirps(i))
        /\ \A c \in nodes'[i].chirps : c.stop = c.start + CHIRP_LENGTH
    ]_vars

(* an interval run of the scheduler has just created a burst of four tones *)
(* beyond the horizon of the run before it                                 *)
C32_Witness ==
  \E i \in NodeIds :
    /\ LookaheadArmed(timers, i)
    /\ SinceLastRun(timers, i) = 0
    /\ \E c, d \in nodes[i].chirps :
         /\ c.start >= scheduleWindow - LOOKAHEAD_INTERVAL
         /\ d.start = c.start + 3 * 450
         /\ d.stop = d.start + CHIRP_LENGTH
         /\ Cardinality(BurstOf(nodes[i].chirps, c.start)) = MAX_COUNT

----------------------------------------------------------------------------
(* The colour loops of createNoiseBuffer, sample by sample *)

(* the white value drawn for sample k of the buffer being generated, k not *)
(* one of the last two samples                                             *)
WhiteAt(k) ==
  IF k < fade(buf.rate) THEN buf.fill["head"]
  ELSE IF k >= bufferSize(buf.rate) - fade(buf.rate) THEN buf.fill["tail"]
  ELSE buf.fill["middle"]

(* an iteration of the colour loop of a buffer of the given type runs in   *)
(* this step and is not the last one                                       *)
Shapes(type) ==
  /\ buf.phase = "shape"
  /\ buf.type = type
  /\ buf'.phase = "shape"
  /\ buf'.i = buf.i + 1

(* C33: output sample i of a pink buffer is 0.11 times the sum of b0..b5   *)
(* as updated with white[i], 0.5362 x white[i], and a b6 term that is      *)
(* 0.115926 x white[i-1] for i >= 1 and 0 for i = 0; b6 takes the current  *)
(* white value only after the sample has been computed                     *)
C33_PinkLag ==
  [][Shapes("pink") =>
       LET i == buf.i
           g == buf'.f
           lag == IF i = 0 THEN 0 ELSE (WhiteAt(i - 1) * 115926) \div 1000000
       IN \E white \in Draws_i :
            /\ g.b6 = (white * 115926) \div 1000000
            /\ buf'.output[i + 1] =
                 ((g.b0 + g.b1 + g.b2 + g.b3 + g.b4 + g.b5 + lag + (white * 5362) \div 10000) * 11) \div 100
            /\ buf.f.b6 = lag]_vars

(* the pink loop has just computed the first sample after the head of the  *)
(* buffer, where the white value changed from 1 to -1: b6 still held the   *)
(* term of the earlier value when that sample was computed                 *)
C33_Witness ==
  /\ buf.phase = "shape"
  /\ buf.type = "pink"
  /\ buf.i = fade(buf.rate) + 1
  /\ buf.fill["head"] = Amp
  /\ buf.fill["middle"] = 0 - Amp
  /\ buf.f.b6 = ((0 - Amp) * 115926) \div 1000000
  /\ buf.output[buf.i] # 0

(* C34: an iteration of the brown loop computes (lastOut + 0.02 x white) / *)
(* 1.02 from the unscaled value of the iteration before (0 at i = 0),      *)
(* keeps that unscaled value as lastOut and stores 3.5 times it: the       *)
(* stored sample of the iteration before is 3.5 x lastOut; the unscaled    *)
(* value stays within [-1, 1] and every stored sample within [-3.5, 3.5]   *)
C34_BrownBounded ==
  [][(buf.phase = "shape" /\ buf.type = "brown" /\ buf' # buf) =>
       LET i == buf.i
           prev == buf.f.lastOut
       IN /\ i = 0 => prev = 0
          /\ i > 0 => buf.output[i] = (prev * 35) \div 10
          /\ Abs(prev) <= Amp
          /\ \E white \in Draws_i :
               LET o == (100 * prev + 2 * white) \div 102
               IN /\ Abs(o) <= Amp
                  /\ buf'.output[i + 1] = (o * 35) \div 10
                  /\ buf'.phase = "shape" => buf'.f.lastOut = o
          /\ 10 * Abs(buf'.output[i + 1]) <= 35 * Amp]_vars

(* a brown buffer under a long run of white values of -1: the unscaled     *)
(* value has reached -1 and the stored sample -3.5                         *)
C34_Witness ==
  /\ buf.phase = "shape"
  /\ buf.type = "brown"
  /\ buf.i > fade(buf.rate)
  /\ buf.f.lastOut = 0 - Amp
  /\ 10 * buf.output[buf.i] = 0 - 35 * Amp

----------------------------------------------------------------------------
(* Calls that come before init() has run, and updateFrequency after the    *)
(* cleanup of a session                                                    *)

NextCold ==
  \/ /\ ~ctx
     /\ calls < MaxCalls
     /\ \/ SetBinauralVolume(5000)
        \/ SetNatureVolume(5000)
        \/ SetNoiseVolume(5000)
        \/ SetMasterVolume(5000)
        \/ UpdateFrequency(7)
        \/ UpdateNatures({"SEA"}, << >>)
        \/ UpdateNoise("PINK")
        \/ Stop
  \/ ~ctx /\ Start({"SEA"}, "NONE", 5, 6000, << >>)
  \/ last.op = "start" /\ AtRest(master) /\ Stop
  \/ ctx /\ last.op = "stop" /\ UpdateFrequency(7)
  \/ FireCleanup
  \/ FireRelease
  \/ Tick

SpecCold == Init /\ [][NextCold]_vars

(* C35: a call of a volume setter, updateFrequency, updateNatures,         *)
(* updateNoise or stop() made while there is no audio context completes    *)
(* and leaves the engine as it was: no context, no node, no generator, no  *)
(* timer; updateFrequency called while there is no tone pair changes       *)
(* nothing either                                                          *)
C35_NoContextNoOp ==
  [][/\ (~ctx /\ calls' = calls + 1 /\ last'.op # "start")
          => /\ Cur' = Cur
             /\ ~ctx'
             /\ timers' = << >>
             /\ tones' = {}
             /\ \A i \in NodeIds : nodes'[i] = FreeNode
             /\ \A g \in NoiseIds : noiseGens'[g] = FreeGen
     /\ ~ctx => /\ setBinauralVolume(Cur, 5000) = Cur
                /\ setNatureVolume(Cur, 5000) = Cur
                /\ setNoiseVolume(Cur, 5000) = Cur
                /\ setMasterVolume(Cur, 5000) = Cur
                /\ updateFrequency(Cur, 7) = Cur
                /\ updateNatures(Cur, {"SEA"}, << >>) = Cur
                /\ updateNoise(Cur, "PINK") = Cur
                /\ stop(Cur) = Cur
     /\ (IsCall("updateFrequency") /\ osc.id = 0) => Cur' = Cur]_vars

(* after calls made without a context, a session was started and stopped,  *)
(* its cleanup has run and updateFrequency was called with no tone pair    *)
C35_Witness ==
  /\ calls = MaxCalls + 3
  /\ last = [op |-> "updateFrequency", arg |-> 7]
  /\ ctx
  /\ osc = NoOsc
  /\ tones = {}
  /\ ~CleanupPending

----------------------------------------------------------------------------
(* What a volume setter leaves alone *)

(* the engine apart from the automation of the master gain and the buses *)
Rest(e) == [e EXCEPT !.master = Const(0), !.bus = [b \in Buses |-> Const(0)]]

(* rr is the automation a setter leaves on a gain whose automation was r:  *)
(* one ramp of RAMP_TIME from r's current value to the floored target      *)
SetsOnly(r, rr, tgt) == rr = Ramp(Val(r), Max(EPS, tgt), RAMP_TIME)

(* C36: setBinauralVolume(v), setNatureVolume(v), setNoiseVolume(v) and    *)
(* setMasterVolume(v) each start a ramp of their own gain to 0.4v, 0.6v,   *)
(* 0.1v and min(v, 0.95), floored at 0.0001, and leave the other three     *)
(* gains, the gains inside the layers and noise generators, the oscillator *)
(* frequencies, the running generators and the pending timers as they were *)
C36_SetterFrame ==
  [][ctx =>
       /\ IsCall("setBinauralVolume")
            => /\ SetsOnly(bus["binaural"], bus'["binaural"], (last'.arg * 4) \div 10)
               /\ \A b \in Buses \ {"binaural"} : bus'[b] = bus[b]
               /\ master' = master
               /\ Rest(Cur') = Rest(Cur)
       /\ IsCall("setNatureVolume")
            => /\ SetsOnly(bus["nature"], bus'["nature"], (last'.arg * 6) \div 10)
               /\ \A b \in Buses \ {"nature"} : bus'[b] = bus[b]
               /\ master' = master
               /\ Rest(Cur') = Rest(Cur)
       /\ IsCall("setNoiseVolume")
            => /\ SetsOnly(bus["noise"], bus'["noise"], last'.arg \div 10)
               /\ \A b \in Buses \ {"noise"} : bus'[b] = bus[b]
               /\ master' = master
               /\ Rest(Cur') = Rest(Cur)
       /\ IsCall("setMasterVolume")
            => /\ SetsOnly(master, master', Min(last'.arg, MASTER_CAP))
               /\ bus' = bus
               /\ Rest(Cur') = Rest(Cur)
    ]_vars

(* setNoiseVolume(1.0) came 50 ms into a session, after the sea layer had  *)
(* been removed: the noise bus ramps to 0.1 while the master ramp, the     *)
(* layer's fade-out and its release timer go on                            *)
C36_Witness ==
  /\ last = [op |-> "setNoiseVolume", arg |-> Unity]
  /\ bus["noise"].tgt = Unity \div 10
  /\ bus["noise"].from = Unity
  /\ ReleasePending
  /\ master.tgt = 6000
  /\ master.rem < master.dur
  /\ master.rem > 0
  /\ \E i \in NodeIds : nodes[i].kind = "SEA" /\ nodes[i].gain.tgt = 0 /\ nodes[i].gain.rem > 0

====
